---------------------------- MODULE Spec2Model ----------------------------
(***************************************************************************)
(* Model of the retry loop of sweagent/agent/reviewer.py: the reviewer     *)
(* that scores one submission and the ScoreRetryLoop that records          *)
(* submissions and reviews, decides whether to retry and picks the best    *)
(* attempt; and of the action tournament of sweagent/agent/                *)
(* action_sampler.py and best_response_picker.py, which reduces the        *)
(* completions sampled for one step to one.                                *)
(*                                                                         *)
(* Representation.  A Python str is a sequence of one-character strings.   *)
(* A float is a fixed-point integer counting units of 1/Scale, so 0.9 is   *)
(* 90 when Scale is 100.  Python's None for an optional value is the empty *)
(* sequence and a present value v is <<v>>.  Python list indices are       *)
(* 0-based, sequences here are 1-based: a returned index i stands for the  *)
(* element i + 1 of the sequence.                                          *)
(***************************************************************************)
EXTENDS Integers, Sequences, FiniteSets, TLC

VARIABLES
    loop_config,            \* ScoreRetryLoop._loop_config (fixed after construction)
    model,                  \* ScoreRetryLoop._model: kind, temperature, cost limit, cost
    submissions,            \* ScoreRetryLoop._submissions
    reviews,                \* ScoreRetryLoop._reviews
    n_consec_exit_cost,     \* ScoreRetryLoop._n_consec_exit_cost
    terminal_temperature,   \* ScoreRetryLoop._terminal_temperature (<<>> is None)
    ret,                    \* the last operation called, its argument and its outcome
    picker,                 \* the class whose get_action runs the tournament
    completions,            \* get_action: the raw completions of the step
    parsed_completions,     \* get_action: the candidates of the tournament
    best_idx,               \* get_action: the index of the champion
    todo,                   \* get_action: the values of i its loop has yet to take
    comparison_log,         \* get_action: comparison_log
    n_comparisons,          \* the comparison queries of the model made so far
    output,                 \* what get_action returned (<<>> before it returns)
    pc,                     \* the position of get_action
    args                    \* the arguments of the calls of a function on its own

\* the variables of the tournament
tvars == <<picker, completions, parsed_completions, best_idx, todo, comparison_log,
           n_comparisons, output, pc>>

vars == <<loop_config, model, submissions, reviews, n_consec_exit_cost,
          terminal_temperature, ret, tvars, args>>

-----------------------------------------------------------------------------
(* Bounds of the model *)

\* submissions recorded in one session
MaxAttempts == 3
\* cumulative model cost (in cost units) up to which queries are made
MaxCost == 2

\* completions sampled for one step (n_samples)
MaxSamples == 3

\* queries of the model for one review (n_sample)
MaxReviewSamples == 5

\* fixed-point resolution of floats: one unit is 1/Scale, two decimal digits
Scale == 10 * 10

-----------------------------------------------------------------------------
(* Python str operations used by the reviewer and the retry loop *)

Whitespace == {" ", "\n", "\t"}
Digits == {"0", "1", "2", "3", "4", "5", "6", "7", "8", "9"}

DigitValue(c) ==
    CASE c = "0" -> 0 [] c = "1" -> 1 [] c = "2" -> 2 [] c = "3" -> 3 [] c = "4" -> 4
      [] c = "5" -> 5 [] c = "6" -> 6 [] c = "7" -> 7 [] c = "8" -> 8 [] c = "9" -> 9

\* str.lower() on one character (the letters the model's texts use)
LowerChar(c) ==
    CASE c = "A" -> "a" [] c = "C" -> "c" [] c = "E" -> "e" [] c = "F" -> "f"
      [] c = "I" -> "i" [] c = "L" -> "l" [] c = "O" -> "o" [] c = "S" -> "s"
      [] c = "T" -> "t" [] c = "U" -> "u" [] c = "X" -> "x"
      [] OTHER -> c

lower(s) == [i \in 1..Len(s) |-> LowerChar(s[i])]

RECURSIVE lstrip(_)
lstrip(s) == IF s # <<>> /\ Head(s) \in Whitespace THEN lstrip(Tail(s)) ELSE s

RECURSIVE rstrip(_)
rstrip(s) ==
    IF s # <<>> /\ s[Len(s)] \in Whitespace THEN rstrip(SubSeq(s, 1, Len(s) - 1)) ELSE s

strip(s) == rstrip(lstrip(s))

\* sub in s
Contains(sub, s) ==
    \E i \in 0..(Len(s) - Len(sub)) : SubSeq(s, i + 1, i + Len(sub)) = sub

\* the text as a whole, whatever its lines
LastLine_whole(s) == s

\* s.split("\n")[-1]
LastLine(s) ==
    LET breaks == {i \in 1..Len(s) : s[i] = "\n"}
        last == IF breaks = {} THEN 0 ELSE CHOOSE i \in breaks : \A j \in breaks : j <= i
    IN  SubSeq(s, last + 1, Len(s))

\* the end of the longest run of digits of s that starts at position i
RECURSIVE DigitsEnd(_, _)
DigitsEnd(s, i) == IF i <= Len(s) /\ s[i] \in Digits THEN DigitsEnd(s, i + 1) ELSE i

\* the position after the match of \d+\.?\d* that starts at the digit s[i]
NumberEnd(s, i) ==
    LET e == DigitsEnd(s, i)
    IN  IF e <= Len(s) /\ s[e] = "." THEN DigitsEnd(s, e + 1) ELSE e

\* re.findall(r"\d+\.?\d*", s): the non-overlapping matches, left to right
RECURSIVE FindNumbers(_, _)
FindNumbers(s, i) ==
    IF i > Len(s) THEN <<>>
    ELSE IF s[i] \in Digits
         THEN <<SubSeq(s, i, NumberEnd(s, i) - 1)>> \o FindNumbers(s, NumberEnd(s, i))
         ELSE FindNumbers(s, i + 1)

RECURSIVE IntOf(_)
IntOf(ds) == IF ds = <<>> THEN 0 ELSE 10 * IntOf(SubSeq(ds, 1, Len(ds) - 1)) + DigitValue(ds[Len(ds)])

\* the value of the fraction digits fs in units of 1/scale (digits below the
\* resolution are dropped)
RECURSIVE FracOf(_, _)
FracOf(fs, scale) ==
    IF fs = <<>> \/ scale \div 10 = 0 THEN 0
    ELSE DigitValue(Head(fs)) * (scale \div 10) + FracOf(Tail(fs), scale \div 10)

\* float(t) for a match t of \d+\.?\d*, in units of 1/Scale
ToFloat(t) ==
    LET e == DigitsEnd(t, 1)
    IN  IntOf(SubSeq(t, 1, e - 1)) * Scale + FracOf(SubSeq(t, e + 1, Len(t)), Scale)


-----------------------------------------------------------------------------
(* Texts of the model: exit statuses of submissions and judge responses *)

\* "submitted"
StatusSubmitted == <<"s", "u", "b", "m", "i", "t", "t", "e", "d">>
\* "submitted (exit_cost)"
StatusSubmittedExitCost ==
    StatusSubmitted \o <<" ", "(", "e", "x", "i", "t", "_", "c", "o", "s", "t", ")">>
\* "Exit_Cost"
StatusExitCostCapital == <<"E", "x", "i", "t", "_", "C", "o", "s", "t">>
\* info.get("exit_status") of the submissions of the model: None, "", and the above
ExitStatuses ==
    {<<>>, <<<<>>>>, <<StatusSubmitted>>, <<StatusSubmittedExitCost>>,
     <<StatusExitCostCapital>>}

\* the submissions handed to on_submit
Submissions == {[info |-> [exit_status |-> e]] : e \in ExitStatuses}

\* "0.9"
ResponseHigh == <<"0", ".", "9">>
\* "ok 1\n0.4 " : a discussion line, then the verdict line
ResponseLow == <<"o", "k", " ", "1", "\n", "0", ".", "4", " ">>
\* the judge's responses (self._model.query(...)["message"])
Responses == {ResponseHigh, ResponseLow}

\* sequences over S of length n
SeqsOfLen(S, n) == [1..n -> S]

RECURSIVE SumSeq(_)
SumSeq(q) == IF q = <<>> THEN 0 ELSE Head(q) + SumSeq(Tail(q))

Abs(x) == IF x < 0 THEN 0 - x ELSE x

-----------------------------------------------------------------------------
(* Reviewer *)

\* Reviewer.interpret, were a response with neither word to count as a success
interpret_accept_default(config, response) ==
    LET last_line == strip(LastLine(strip(response)))
    IN  IF config.output_type = "bool"
        THEN IF Contains(<<"s", "u", "c", "c", "e", "s", "s">>, lower(last_line)) THEN Scale
             ELSE IF Contains(<<"f", "a", "i", "l">>, lower(last_line)) THEN 0
             ELSE Scale
        ELSE LET numbers == FindNumbers(last_line, 1)
             IN  IF numbers # <<>> THEN ToFloat(numbers[Len(numbers)]) ELSE 0

\* Reviewer.interpret: the verdict of one response.  True is 1.0 and False is
\* 0.0, as in the sum that review takes over the verdicts.
interpret(config, response) ==
    LET last_line == strip(LastLine(strip(response)))
    IN  IF config.output_type = "bool"
        THEN IF Contains(<<"s", "u", "c", "c", "e", "s", "s">>, lower(last_line)) THEN Scale
             ELSE IF Contains(<<"f", "a", "i", "l">>, lower(last_line)) THEN 0
             ELSE 0
        ELSE LET numbers == FindNumbers(last_line, 1)
             IN  IF numbers # <<>> THEN ToFloat(numbers[Len(numbers)]) ELSE 0

\* not exit_status, for exit_status = submission.info.get("exit_status")
NoExitStatus(submission) ==
    \/ submission.info.exit_status = <<>>
    \/ submission.info.exit_status[1] = <<>>

\* the submission is rejected without a query of the model
DeskRejected(config, submission) ==
    \/ NoExitStatus(submission)
    \/ /\ config.reject_exit_status
       /\ strip(submission.info.exit_status[1]) # StatusSubmitted

\* "No exit status in submission, will reject."
AnswerNoExitStatus ==
    <<"N", "o", " ", "e", "x", "i", "t", " ", "s", "t", "a", "t", "u", "s", " ", "i",
      "n", " ", "s", "u", "b", "m", "i", "s", "s", "i", "o", "n", ",", " ", "w", "i",
      "l", "l", " ", "r", "e", "j", "e", "c", "t", ".">>

\* f"Submission desk-rejected because of exit status {exit_status!r}."
AnswerDeskRejected(exit_status) ==
    <<"S", "u", "b", "m", "i", "s", "s", "i", "o", "n", " ", "d", "e", "s", "k", "-",
      "r", "e", "j", "e", "c", "t", "e", "d", " ", "b", "e", "c", "a", "u", "s", "e",
      " ", "o", "f", " ", "e", "x", "i", "t", " ", "s", "t", "a", "t", "u", "s", " ">>
      \o <<"'">> \o exit_status \o <<"'", ".">>

\* Reviewer.format_messages: the system and the user message (their contents are
\* rendered templates, which no decision reads)
format_messages(submission) == <<"system", "user">>

\* Reviewer.review, were the exit status compared as it is, untrimmed
review_unstripped(config, submission, answers) ==
    IF NoExitStatus(submission)
    THEN [accept |-> 0, outputs |-> <<AnswerNoExitStatus>>, messages |-> <<>>]
    ELSE IF /\ config.reject_exit_status
            /\ submission.info.exit_status[1] # StatusSubmitted
    THEN [accept |-> 0,
          outputs |-> <<AnswerDeskRejected(submission.info.exit_status[1])>>,
          messages |-> <<>>]
    ELSE LET accepts == [i \in 1..config.n_sample |-> interpret(config, answers[i])]
         IN  [accept |-> SumSeq(accepts) \div Len(accepts),
              outputs |-> answers,
              messages |-> format_messages(submission)]

\* Reviewer.review, where answers are the responses of the n_sample queries:
\* the ReviewerResult
review(config, submission, answers) ==
    IF NoExitStatus(submission)
    THEN [accept |-> 0, outputs |-> <<AnswerNoExitStatus>>, messages |-> <<>>]
    ELSE IF /\ config.reject_exit_status
            /\ strip(submission.info.exit_status[1]) # StatusSubmitted
    THEN [accept |-> 0,
          outputs |-> <<AnswerDeskRejected(submission.info.exit_status[1])>>,
          messages |-> <<>>]
    ELSE LET accepts == [i \in 1..config.n_sample |-> interpret(config, answers[i])]
         IN  [accept |-> SumSeq(accepts) \div Len(accepts),
              outputs |-> answers,
              messages |-> format_messages(submission)]

\* the number of model queries review makes for the submission
ReviewQueries(config, submission) ==
    IF DeskRejected(config, submission) THEN 0 ELSE config.n_sample

-----------------------------------------------------------------------------
(* ScoreRetryLoop *)

\* "exit_cost"
ExitCostWord == <<"e", "x", "i", "t", "_", "c", "o", "s", "t">>

\* 1e-10 in units of 1/Scale (1e10 is 100000 * 100000)
Eps == (Scale \div 100000) \div 100000

\* the costs of one query of the model, added to model.stats.instance_cost
QueryCosts == {0, 1}

\* isinstance(self._model, cls), for a model of class kind
IsInstance(kind, cls) == kind = cls

\* ScoreRetryLoop._n_attempts
n_attempts == Len(submissions)

\* max([r.accept for r in revs]), for a non-empty list
MaxAccept(revs) ==
    CHOOSE a \in {revs[i].accept : i \in 1..Len(revs)} :
        \A i \in 1..Len(revs) : revs[i].accept <= a

\* sorted(d.items(), reverse=True, key=lambda x: x[0])
RECURSIVE SortedItems(_)
SortedItems(d) ==
    IF DOMAIN d = {} THEN <<>>
    ELSE LET k == CHOOSE x \in DOMAIN d : \A y \in DOMAIN d : y <= x
         IN  <<<<k, d[k]>>>> \o SortedItems([y \in DOMAIN d \ {k} |-> d[y]])

\* MaxAttemptsIn with the scan run to the end: the entry with the smallest key
\* that max_score reaches is taken instead of the one with the largest
RECURSIVE MaxAttemptsIn_last(_, _)
MaxAttemptsIn_last(items, max_score) ==
    IF items = <<>> THEN 0
    ELSE LET rest == MaxAttemptsIn_last(Tail(items), max_score)
         IN  IF max_score >= items[1][1] /\ ~(\E j \in 2..Len(items) : max_score >= items[j][1])
             THEN items[1][2]
             ELSE rest

\* the for/else loop of retry over the sorted items: max_attempts
RECURSIVE MaxAttemptsIn(_, _)
MaxAttemptsIn(items, max_score) ==
    IF items = <<>> THEN 0
    ELSE IF max_score >= items[1][1] THEN items[1][2]
    ELSE MaxAttemptsIn(Tail(items), max_score)

\* AttemptsReached with > for >= in the test of the attempts
AttemptsReached_strict(config, n, max_score) ==
    LET max_attempts == MaxAttemptsIn(SortedItems(config.max_attempts_for_score), max_score)
    IN  n > max_attempts /\ max_attempts > 0

\* retry: self._n_attempts >= max_attempts > 0
AttemptsReached(config, n, max_score) ==
    LET max_attempts == MaxAttemptsIn(SortedItems(config.max_attempts_for_score), max_score)
    IN  n >= max_attempts /\ max_attempts > 0

\* ExitCostReached with > for >=
ExitCostReached_strict(config, n_consec) ==
    LET max_n_exit_cost == config.max_n_consec_exit_cost
    IN  n_consec > max_n_exit_cost /\ max_n_exit_cost > 0

\* retry: self._n_consec_exit_cost >= max_n_exit_cost > 0
ExitCostReached(config, n_consec) ==
    LET max_n_exit_cost == config.max_n_consec_exit_cost
    IN  n_consec >= max_n_exit_cost /\ max_n_exit_cost > 0

\* BudgetTooLow with the spent cost compared in place of the remaining budget
BudgetTooLow_spent(config, mdl) ==
    /\ config.min_budget_for_new_attempt > 0
    /\ mdl.instance_cost < config.min_budget_for_new_attempt
    /\ ~IsInstance(mdl.kind, "HumanModel")
    /\ ~IsInstance(mdl.kind, "HumanThoughtModel")

\* retry: not enough budget left for a new attempt
BudgetTooLow(config, mdl) ==
    LET remaining_budget == mdl.instance_cost_limit - mdl.instance_cost
    IN  /\ config.min_budget_for_new_attempt > 0
        /\ remaining_budget < config.min_budget_for_new_attempt
        /\ ~IsInstance(mdl.kind, "HumanModel")
        /\ ~IsInstance(mdl.kind, "HumanThoughtModel")

\* ScoreRetryLoop.retry in the current state: the exception it raises, or the
\* value it returns
retry ==
    IF reviews = <<>>
    THEN [exc |-> "ValueError", val |-> <<>>]
    ELSE LET max_score == MaxAccept(reviews)
         IN  IF AttemptsReached(loop_config, n_attempts, max_score)
             THEN [exc |-> "none", val |-> <<FALSE>>]
             ELSE IF ExitCostReached(loop_config, n_consec_exit_cost)
             THEN [exc |-> "none", val |-> <<FALSE>>]
             ELSE IF BudgetTooLow(loop_config, model)
             THEN [exc |-> "none", val |-> <<FALSE>>]
             ELSE [exc |-> "none", val |-> <<TRUE>>]

\* [i for i, r in enumerate(revs) if abs(r.accept - best_score) <= 1e-10], from
\* list position i on (indices are 0-based)
RECURSIVE BestIndices(_, _, _)
BestIndices(revs, best_score, i) ==
    IF i > Len(revs) THEN <<>>
    ELSE (IF Abs(revs[i].accept - best_score) <= Eps THEN <<i - 1>> ELSE <<>>)
         \o BestIndices(revs, best_score, i + 1)

\* get_best with best_indices[-1] for best_indices[0]
get_best_last(revs) ==
    IF Len(revs) = 0 THEN 0
    ELSE LET best_indices == BestIndices(revs, MaxAccept(revs), 1)
         IN  best_indices[Len(best_indices)]

\* ScoreRetryLoop.get_best for the reviews revs
get_best(revs) ==
    IF Len(revs) = 0 THEN 0
    ELSE BestIndices(revs, MaxAccept(revs), 1)[1]

\* NextConsecExitCost without the lower() of the exit status
NextConsecExitCost_cased(n_consec, submission) ==
    LET exit_status == IF submission.info.exit_status = <<>>
                       THEN <<>>
                       ELSE submission.info.exit_status[1]
    IN  IF exit_status # <<>> /\ Contains(ExitCostWord, exit_status)
        THEN n_consec + 1
        ELSE 0

\* NextConsecExitCost without the reset by a submission of another status
NextConsecExitCost_kept(n_consec, submission) ==
    LET exit_status == IF submission.info.exit_status = <<>>
                       THEN <<>>
                       ELSE submission.info.exit_status[1]
    IN  IF exit_status # <<>> /\ Contains(ExitCostWord, lower(exit_status))
        THEN n_consec + 1
        ELSE n_consec

\* _review: the counter of consecutive exit-cost submissions after a submission
NextConsecExitCost(n_consec, submission) ==
    LET exit_status == IF submission.info.exit_status = <<>>
                       THEN <<>>
                       ELSE submission.info.exit_status[1]
    IN  IF exit_status # <<>> /\ Contains(ExitCostWord, lower(exit_status))
        THEN n_consec + 1
        ELSE 0

\* on_submit with a review recorded only for the submissions sent to the judge
on_submit_judged_only(submission, answers, query_cost) ==
    /\ Len(submissions) < MaxAttempts
    /\ model.instance_cost + ReviewQueries(loop_config.reviewer_config, submission) * query_cost
          <= MaxCost
    /\ submissions' = Append(submissions, submission)
    /\ reviews' = IF DeskRejected(loop_config.reviewer_config, submission)
                  THEN reviews
                  ELSE Append(reviews, review(loop_config.reviewer_config, submission, answers))
    /\ n_consec_exit_cost' = NextConsecExitCost(n_consec_exit_cost, submission)
    /\ model' = [model EXCEPT !.instance_cost =
                    @ + ReviewQueries(loop_config.reviewer_config, submission) * query_cost]
    /\ ret' = [op |-> "on_submit", exc |-> "none", val |-> <<>>]
    /\ UNCHANGED <<args, tvars, loop_config, terminal_temperature>>

\* on_submit with the review made before the submission is appended: the
\* review is that of the submission recorded last, and with none recorded
\* self._submissions[-1] raises IndexError
on_submit_review_first(submission, answers, query_cost) ==
    /\ Len(submissions) < MaxAttempts
    /\ model.instance_cost + ReviewQueries(loop_config.reviewer_config, submission) * query_cost
          <= MaxCost
    /\ IF submissions = <<>>
       THEN /\ ret' = [op |-> "on_submit", exc |-> "IndexError", val |-> <<>>]
            /\ UNCHANGED <<submissions, reviews, n_consec_exit_cost, model>>
       ELSE /\ submissions' = Append(submissions, submission)
            /\ reviews' = Append(reviews, review(loop_config.reviewer_config,
                                                submissions[Len(submissions)], answers))
            /\ n_consec_exit_cost' = NextConsecExitCost(n_consec_exit_cost, submission)
            /\ model' = [model EXCEPT !.instance_cost =
                            @ + ReviewQueries(loop_config.reviewer_config, submission)
                                * query_cost]
            /\ ret' = [op |-> "on_submit", exc |-> "none", val |-> <<>>]
    /\ UNCHANGED <<args, tvars, loop_config, terminal_temperature>>

\* ScoreRetryLoop.on_submit(submission), with the judge's answers to the queries
\* of the review and the cost of one query
on_submit(submission, answers, query_cost) ==
    /\ Len(submissions) < MaxAttempts
    /\ model.instance_cost + ReviewQueries(loop_config.reviewer_config, submission) * query_cost
          <= MaxCost
    /\ submissions' = Append(submissions, submission)
    /\ reviews' = Append(reviews, review(loop_config.reviewer_config, submission, answers))
    /\ n_consec_exit_cost' = NextConsecExitCost(n_consec_exit_cost, submission)
    /\ model' = [model EXCEPT !.instance_cost =
                    @ + ReviewQueries(loop_config.reviewer_config, submission) * query_cost]
    /\ ret' = [op |-> "on_submit", exc |-> "none", val |-> <<>>]
    /\ UNCHANGED <<args, tvars, loop_config, terminal_temperature>>

\* ScoreRetryLoop.on_attempt_started(i_attempt, agent): _override_temperature
on_attempt_started(i_attempt) ==
    LET captured == IF i_attempt = 0 THEN <<model.temperature>> ELSE terminal_temperature
        K == Len(loop_config.temperature_override)
    IN  IF ~IsInstance(model.kind, "LiteLLMModel")
        THEN /\ ret' = [op |-> "on_attempt_started", exc |-> "none", val |-> <<>>]
             /\ UNCHANGED <<args, tvars, loop_config, model, submissions, reviews,
                            n_consec_exit_cost, terminal_temperature>>
        ELSE /\ terminal_temperature' = captured
             /\ IF i_attempt < K
                THEN /\ model' = [model EXCEPT !.temperature =
                                     loop_config.temperature_override[i_attempt + 1]]
                     /\ ret' = [op |-> "on_attempt_started", exc |-> "none", val |-> <<>>]
                ELSE IF captured = <<>>
                THEN /\ model' = model
                     /\ ret' = [op |-> "on_attempt_started", exc |-> "AssertionError",
                                val |-> <<>>]
                ELSE /\ model' = [model EXCEPT !.temperature = captured[1]]
                     /\ ret' = [op |-> "on_attempt_started", exc |-> "none", val |-> <<>>]
             /\ UNCHANGED <<args, tvars, loop_config, submissions, reviews, n_consec_exit_cost>>

\* on_model_query, were the abort to forget the exit-cost submissions counted so far
on_model_query_reset(cost) ==
    LET exceeded == 0 < loop_config.attempt_cost_limit
                    /\ loop_config.attempt_cost_limit <= cost
    IN  /\ ret' = IF exceeded
                  THEN [op |-> "on_model_query", exc |-> "AttemptCostLimitExceededError",
                        val |-> <<>>]
                  ELSE [op |-> "on_model_query", exc |-> "none", val |-> <<>>]
        /\ n_consec_exit_cost' = IF exceeded THEN 0 ELSE n_consec_exit_cost
        /\ UNCHANGED <<args, tvars, loop_config, model, submissions, reviews,
                       terminal_temperature>>

\* ScoreRetryLoop.on_model_query(attempt_stats), attempt_stats.instance_cost = cost
on_model_query(cost) ==
    /\ ret' = IF 0 < loop_config.attempt_cost_limit /\ loop_config.attempt_cost_limit <= cost
              THEN [op |-> "on_model_query", exc |-> "AttemptCostLimitExceededError",
                    val |-> <<>>]
              ELSE [op |-> "on_model_query", exc |-> "none", val |-> <<>>]
    /\ UNCHANGED <<args, tvars, loop_config, model, submissions, reviews, n_consec_exit_cost,
                   terminal_temperature>>

\* retry_call, were retry() to clear the count of exit-cost submissions
retry_call_clearing ==
    /\ ret' = [op |-> "retry", exc |-> retry.exc, val |-> retry.val]
    /\ n_consec_exit_cost' = 0
    /\ UNCHANGED <<args, tvars, loop_config, model, submissions, reviews,
                   terminal_temperature>>

\* a call of retry()
retry_call ==
    /\ ret' = [op |-> "retry", exc |-> retry.exc, val |-> retry.val]
    /\ UNCHANGED <<args, tvars, loop_config, model, submissions, reviews, n_consec_exit_cost,
                   terminal_temperature>>

\* a call of get_best()
get_best_call ==
    /\ ret' = [op |-> "get_best", exc |-> "none", val |-> <<get_best(reviews)>>]
    /\ UNCHANGED <<args, tvars, loop_config, model, submissions, reviews, n_consec_exit_cost,
                   terminal_temperature>>

\* the agent queries the model during an attempt: the model adds the cost of the
\* query to its stats
model_query(query_cost) ==
    /\ query_cost > 0
    /\ model.instance_cost + query_cost <= MaxCost
    /\ model' = [model EXCEPT !.instance_cost = @ + query_cost]
    /\ ret' = [op |-> "model_query", exc |-> "none", val |-> <<>>]
    /\ UNCHANGED <<args, tvars, loop_config, submissions, reviews, n_consec_exit_cost,
                   terminal_temperature>>

-----------------------------------------------------------------------------
(* Configurations and the specification *)

\* the reviewer configuration of the sessions: the defaults but for n_sample
ReviewerConfigs ==
    {[output_type |-> "float", reject_exit_status |-> TRUE, n_sample |-> 1]}

\* max_attempts_for_score tables: {}, {0.0: 3, 0.5: 1}, {0.5: 2}, {0.0: 0, 0.9: 2}
TierTables ==
    {<<>>, (0 :> 3) @@ (50 :> 1), (50 :> 2), (0 :> 0) @@ (90 :> 2)}

\* a loop configuration
LoopConfig(rc, table, max_n, min_budget) ==
    [reviewer_config |-> rc, max_attempts_for_score |-> table,
     max_n_consec_exit_cost |-> max_n, attempt_cost_limit |-> 2,
     min_budget_for_new_attempt |-> min_budget, temperature_override |-> <<0>>]

\* the model of a session: temperature 0.7, cost limit 2, nothing spent
ModelOf(kind) ==
    [kind |-> kind, temperature |-> 70, instance_cost_limit |-> 2, instance_cost |-> 0]

\* the configurations the retry decision is explored over
LoopConfigs ==
    {LoopConfig(rc, t, x, b) :
        rc \in ReviewerConfigs, t \in TierTables, x \in {0, 2}, b \in {0, 1}}

\* no tournament is run in the sessions of the retry loop
NoTournament ==
    /\ picker = "none"
    /\ completions = <<>>
    /\ parsed_completions = <<>>
    /\ best_idx = 0
    /\ todo = <<>>
    /\ comparison_log = <<>>
    /\ n_comparisons = 0
    /\ output = <<>>
    /\ pc = "idle"

\* ScoreRetryLoop.__init__ for the configuration config and the model mdl
InitLoop(config, mdl) ==
    /\ loop_config = config
    /\ model = mdl
    /\ submissions = <<>>
    /\ reviews = <<>>
    /\ n_consec_exit_cost = 0
    /\ terminal_temperature = <<>>
    /\ ret = [op |-> "init", exc |-> "none", val |-> <<>>]
    /\ NoTournament
    /\ args = <<>>

\* Sessions of the whole loop: every operation, in any order, under the default
\* configuration and under one with every stop condition configured.
Init ==
    \E rc \in ReviewerConfigs :
       \/ InitLoop(LoopConfig(rc, <<>>, 0, 0), ModelOf("LiteLLMModel"))
       \/ InitLoop(LoopConfig(rc, (0 :> 3) @@ (50 :> 1), 2, 1), ModelOf("LiteLLMModel"))
       \/ InitLoop(LoopConfig(rc, <<>>, 0, 1), ModelOf("HumanModel"))

Next ==
    \/ on_attempt_started(n_attempts)
    \/ \E submission \in Submissions, query_cost \in QueryCosts :
         \E answers \in SeqsOfLen(Responses, loop_config.reviewer_config.n_sample) :
            on_submit(submission, answers, query_cost)
    \/ \E cost \in 0..MaxCost : on_model_query(cost)
    \/ retry_call
    \/ get_best_call
    \/ \E query_cost \in QueryCosts : model_query(query_cost)

Spec == Init /\ [][Next]_vars

\* Sessions that explore the retry decision: every loop configuration, with a
\* language model or a human at the keyboard; submissions that are judged, that
\* ran out of cost, or that carry no exit status.
RetrySubmissions ==
    {[info |-> [exit_status |-> e]] :
        e \in {<<>>, <<StatusSubmitted>>, <<StatusSubmittedExitCost>>}}

InitRetry ==
    \E config \in LoopConfigs :
       \E kind \in {"LiteLLMModel", "HumanModel", "HumanThoughtModel"} :
          InitLoop(config, ModelOf(kind))

NextRetry ==
    \/ \E submission \in RetrySubmissions, query_cost \in QueryCosts :
         \E answers \in SeqsOfLen(Responses, loop_config.reviewer_config.n_sample) :
            on_submit(submission, answers, query_cost)
    \/ retry_call
    \/ \E query_cost \in QueryCosts : model_query(query_cost)

SpecRetry == InitRetry /\ [][NextRetry]_vars

-----------------------------------------------------------------------------
(* The action tournament: BinaryTrajectoryComparison.get_action of           *)
(* action_sampler.py (picker = "action_sampler") and of                      *)
(* best_response_picker.py (picker = "best_response_picker")                 *)

\* thoughts and actions of the completions: two thoughts of one length, a longer one
ThoughtA == <<"a">>
ThoughtB == <<"b">>
ThoughtLong == <<"a", "b">>
ActionLs == <<"l", "s">>
ActionCd == <<"c", "d">>
ActionPwd == <<"p", "w", "d">>

\* a completion of the model that holds a thought and one action
Completion(thought, action) ==
    [well_formed |-> TRUE, thought |-> thought, action |-> action]

\* a completion of the model that holds no action that can be parsed
Malformed == [well_formed |-> FALSE, thought |-> <<>>, action |-> <<>>]

\* the completions the model returns
Completions ==
    {Completion(ThoughtA, ActionLs), Completion(ThoughtB, ActionLs),
     Completion(ThoughtLong, ActionLs), Completion(ThoughtA, ActionCd),
     Completion(ThoughtLong, ActionCd), Completion(ThoughtB, ActionPwd), Malformed}

\* the answers of the model to a comparison: "first", "first\nSecond ", "tie"
ResponseFirst == <<"f", "i", "r", "s", "t">>
ResponseSecond == <<"f", "i", "r", "s", "t", "\n", "S", "e", "c", "o", "n", "d", " ">>
ResponseTie == <<"t", "i", "e">>
ComparisonResponses == {ResponseFirst, ResponseSecond, ResponseTie}

\* ToolHandler.parse_actions(completion): (thought, action), or FormatError
parse_actions(completion) ==
    IF completion.well_formed
    THEN [exc |-> "none", val |-> <<completion.thought, completion.action>>]
    ELSE [exc |-> "FormatError", val |-> <<>>]

\* the loop of parse_completions: the completions that parse, in order
RECURSIVE ParseLoop(_)
ParseLoop(cs) ==
    IF cs = <<>> THEN <<>>
    ELSE LET parsed == parse_actions(Head(cs))
         IN  (IF parsed.exc = "FormatError" THEN <<>> ELSE <<parsed.val>>)
                 \o ParseLoop(Tail(cs))

\* parse_completions, were it to return the empty list when nothing parses
parse_completions_unchecked(cs) ==
    [exc |-> "none", val |-> ParseLoop(cs)]

\* BinaryTrajectoryComparison.parse_completions(completions)
parse_completions(cs) ==
    LET parsed == ParseLoop(cs)
    IN  IF Len(parsed) = 0
        THEN [exc |-> "FormatError", val |-> <<>>]
        ELSE [exc |-> "none", val |-> parsed]

\* x in q
InList(x, q) == \E k \in 1..Len(q) : q[k] = x

\* q.index(x), counted from 0
Index(q, x) == (CHOOSE k \in 1..Len(q) : q[k] = x /\ \A j \in 1..(k - 1) : q[j] # x) - 1

\* the thought kept for an action gives way to a new one already at equal length
ReplacesThought_or_equal(kept, new) == Len(kept) <= Len(new)

\* filter_duplicates: len(thoughts[found]) < len(pc[0])
ReplacesThought(kept, new) == Len(kept) < Len(new)

\* FilterLoop with the duplicates told by their thought in place of their action
RECURSIVE FilterLoop_by_thought(_, _, _, _)
FilterLoop_by_thought(pcs, thoughts, actions, counts) ==
    IF pcs = <<>>
    THEN [k \in 1..Len(actions) |-> <<thoughts[k], actions[k], counts[k]>>]
    ELSE LET c == Head(pcs)
         IN  IF ~InList(c[1], thoughts)
             THEN FilterLoop_by_thought(Tail(pcs), Append(thoughts, c[1]),
                                        Append(actions, c[2]), Append(counts, 1))
             ELSE LET found == Index(thoughts, c[1]) + 1
                  IN  FilterLoop_by_thought(Tail(pcs), thoughts, actions,
                                            [counts EXCEPT ![found] = @ + 1])

\* the loop of filter_duplicates over the candidates pcs yet to scan
RECURSIVE FilterLoop(_, _, _, _)
FilterLoop(pcs, thoughts, actions, counts) ==
    IF pcs = <<>>
    THEN [k \in 1..Len(actions) |-> <<thoughts[k], actions[k], counts[k]>>]
    ELSE LET c == Head(pcs)
         IN  IF ~InList(c[2], actions)
             THEN FilterLoop(Tail(pcs), Append(thoughts, c[1]), Append(actions, c[2]),
                             Append(counts, 1))
             ELSE LET found == Index(actions, c[2]) + 1
                  IN  FilterLoop(Tail(pcs),
                                 IF ReplacesThought(thoughts[found], c[1])
                                 THEN [thoughts EXCEPT ![found] = c[1]]
                                 ELSE thoughts,
                                 actions,
                                 [counts EXCEPT ![found] = @ + 1])

\* BinaryTrajectoryComparison.filter_duplicates(completions)
filter_duplicates(pcs) == FilterLoop(pcs, <<>>, <<>>, <<>>)


\* interpret, were a response that names neither to count for the second
interpret_comparison_second_default(response) ==
    LET last_line == strip(LastLine(strip(response)))
    IN  IF Contains(<<"f", "i", "r", "s", "t">>, lower(last_line))
        THEN 0
        ELSE 1

\* BinaryTrajectoryComparison.interpret(response): 0 for the first, 1 for the second
interpret_comparison(response) ==
    LET last_line == strip(LastLine(strip(response)))
    IN  IF Contains(<<"f", "i", "r", "s", "t">>, lower(last_line))
        THEN 0
        ELSE IF Contains(<<"s", "e", "c", "o", "n", "d">>, lower(last_line))
        THEN 1
        ELSE 0

\* BinaryTrajectoryComparison.format_messages: what the prompt is rendered from;
\* only the candidates of action_sampler.py carry a count
format_comparison(first, second, use_cache_control) ==
    [thought1 |-> first[1], action1 |-> first[2],
     thought2 |-> second[1], action2 |-> second[2],
     counts |-> IF Len(first) = 3 THEN <<first[3], second[3]>> ELSE <<>>,
     use_cache_control |-> use_cache_control]

\* the values of i of the loop from the second candidate on, were it to start
\* at the first
LoopRange_from_first(n) == [k \in 1..n |-> k - 1]

\* range(1, n)
LoopRange(n) == [k \in 1..(n - 1) |-> k]

\* the retry loop takes no part in a tournament
NoRetryLoop ==
    /\ loop_config = <<>>
    /\ model = <<>>
    /\ submissions = <<>>
    /\ reviews = <<>>
    /\ n_consec_exit_cost = 0
    /\ terminal_temperature = <<>>
    /\ ret = [op |-> "none", exc |-> "none", val |-> <<>>]

\* get_action up to its loop: the completions are parsed and, in
\* action_sampler.py, the duplicates are filtered
get_action_parse ==
    /\ pc = "start"
    /\ LET parsed == parse_completions(completions)
       IN  IF parsed.exc # "none"
           THEN /\ output' = <<[exc |-> parsed.exc, val |-> <<>>]>>
                /\ pc' = "done"
                /\ UNCHANGED <<parsed_completions, best_idx, todo, comparison_log>>
           ELSE LET candidates == IF picker = "action_sampler"
                                  THEN filter_duplicates(parsed.val)
                                  ELSE parsed.val
                IN  /\ parsed_completions' = candidates
                    /\ best_idx' = 0
                    /\ comparison_log' = <<>>
                    /\ todo' = LoopRange(Len(candidates))
                    /\ pc' = "loop"
                    /\ output' = output
    /\ UNCHANGED <<args, picker, completions, n_comparisons, loop_config, model, submissions,
                   reviews, n_consec_exit_cost, terminal_temperature, ret>>

\* the pass of the loop, were the log to hold the last comparison only
get_action_compare_overwrite(response) ==
    /\ pc = "loop"
    /\ todo # <<>>
    /\ LET i == Head(todo)
           messages == format_comparison(parsed_completions[best_idx + 1],
                                         parsed_completions[i + 1],
                                         Len(parsed_completions) >= 3)
           idx == interpret_comparison(response)
       IN  /\ n_comparisons' = n_comparisons + 1
           /\ comparison_log' = <<[comparison_between |-> <<best_idx, i>>,
                                   messages |-> messages,
                                   response |-> response,
                                   idx |-> idx]>>
           /\ best_idx' = IF idx = 1 THEN i ELSE best_idx
           /\ todo' = Tail(todo)
    /\ UNCHANGED <<args, picker, completions, parsed_completions, output, pc, loop_config,
                   model, submissions, reviews, n_consec_exit_cost,
                   terminal_temperature, ret>>

\* one pass of the loop of get_action: the model is asked to compare the
\* champion with candidate i and answers response
get_action_compare(response) ==
    /\ pc = "loop"
    /\ todo # <<>>
    /\ LET i == Head(todo)
           messages == format_comparison(parsed_completions[best_idx + 1],
                                         parsed_completions[i + 1],
                                         Len(parsed_completions) >= 3)
           idx == interpret_comparison(response)
       IN  /\ n_comparisons' = n_comparisons + 1
           /\ comparison_log' = Append(comparison_log,
                                       [comparison_between |-> <<best_idx, i>>,
                                        messages |-> messages,
                                        response |-> response,
                                        idx |-> idx])
           /\ best_idx' = IF idx = 1 THEN i ELSE best_idx
           /\ todo' = Tail(todo)
    /\ UNCHANGED <<args, picker, completions, parsed_completions, output, pc, loop_config,
                   model, submissions, reviews, n_consec_exit_cost,
                   terminal_temperature, ret>>

\* the return of get_action: completions[best_idx] and the log
get_action_return ==
    /\ pc = "loop"
    /\ todo = <<>>
    /\ output' = IF best_idx < Len(completions)
                 THEN <<[exc |-> "none",
                         val |-> [completion |-> completions[best_idx + 1],
                                  comparison_log |-> comparison_log]]>>
                 ELSE <<[exc |-> "IndexError", val |-> <<>>]>>
    /\ pc' = "done"
    /\ UNCHANGED <<args, picker, completions, parsed_completions, best_idx, todo,
                   comparison_log, n_comparisons, loop_config, model, submissions,
                   reviews, n_consec_exit_cost, terminal_temperature, ret>>

\* the two classes that run the tournament
Pickers == {"action_sampler", "best_response_picker"}

\* get_action is called with the completions of one step, n_samples >= 1 of them
InitTournament ==
    /\ NoRetryLoop
    /\ picker \in Pickers
    /\ completions \in UNION {SeqsOfLen(Completions, n) : n \in 1..MaxSamples}
    /\ parsed_completions = <<>>
    /\ best_idx = 0
    /\ todo = <<>>
    /\ comparison_log = <<>>
    /\ n_comparisons = 0
    /\ output = <<>>
    /\ pc = "start"
    /\ args = <<>>

NextTournament ==
    \/ get_action_parse
    \/ \E response \in ComparisonResponses : get_action_compare(response)
    \/ get_action_return

SpecTournament == InitTournament /\ [][NextTournament]_vars

-----------------------------------------------------------------------------
(* The interpreters of a response, each called on its own:                   *)
(* Reviewer.interpret, BinaryReviewer.interpret (reviewer.py) and            *)
(* BinaryTrajectoryComparison.interpret                                      *)

\* "... the answer is second (90)"
ResponseAnswerSecond ==
    <<".", ".", ".", " ", "t", "h", "e", " ", "a", "n", "s", "w", "e", "r", " ",
      "i", "s", " ", "s", "e", "c", "o", "n", "d", " ", "(", "9", "0", ")">>
\* "first 10\n... the answer is second (90)\n \n": the same verdict line after a
\* discussion line and before blank lines
ResponseDiscussedSecond ==
    <<"f", "i", "r", "s", "t", " ", "1", "0", "\n", ".", ".", ".", " ", "t", "h",
      "e", " ", "a", "n", "s", "w", "e", "r", " ", "i", "s", " ", "s", "e", "c",
      "o", "n", "d", " ", "(", "9", "0", ")", "\n", " ", "\n">>
\* "second 250"
ResponseOverConfident ==
    <<"s", "e", "c", "o", "n", "d", " ", "2", "5", "0">>
\* "first or second 40"
ResponseBoth ==
    <<"f", "i", "r", "s", "t", " ", "o", "r", " ", "s", "e", "c", "o", "n", "d",
      " ", "4", "0">>
\* "tie 90"
ResponseNumberOnly ==
    <<"t", "i", "e", " ", "9", "0">>
\* "SUCCESS"
ResponseSuccess ==
    <<"S", "U", "C", "C", "E", "S", "S">>
\* "success\nFail 1"
ResponseFail ==
    <<"s", "u", "c", "c", "e", "s", "s", "\n", "F", "a", "i", "l", " ", "1">>
\* "fail or success"
ResponseFailOrSuccess ==
    <<"f", "a", "i", "l", " ", "o", "r", " ", "s", "u", "c", "c", "e", "s", "s">>
\* "second 40 then 90"
ResponseTwoNumbers ==
    <<"s", "e", "c", "o", "n", "d", " ", "4", "0", " ", "t", "h", "e", "n", " ",
      "9", "0">>
\* "fail\n\nSUCCESS\n": the same verdict line after a discussion
ResponseDiscussedSuccess ==
    <<"f", "a", "i", "l", "\n", "\n", "S", "U", "C", "C", "E", "S", "S", "\n">>
\* ""
ResponseEmpty == <<>>

\* the responses the interpreters are called with
InterpretResponses ==
    {ResponseFirst, ResponseSecond, ResponseTie, ResponseAnswerSecond,
     ResponseDiscussedSecond, ResponseOverConfident, ResponseBoth, ResponseNumberOnly,
     ResponseSuccess, ResponseFail, ResponseFailOrSuccess, ResponseTwoNumbers,
     ResponseDiscussedSuccess, ResponseEmpty, ResponseHigh, ResponseLow}

\* the confidence as it is read, with no upper limit
Unclamped(confidence) == confidence

\* BinaryReviewer.interpret: if confidence > 100.0: confidence = 100.0
ClampConfidence(confidence) ==
    IF confidence > 100 * Scale THEN 100 * Scale ELSE confidence

\* BinaryReviewer.interpret, were the confidence read kept when no side is named
binary_interpret_keep_confidence(response) ==
    LET last_line == strip(LastLine(strip(response)))
        number == FindNumbers(last_line, 1)
        confidence == ClampConfidence(IF number # <<>> THEN ToFloat(number[1]) ELSE 0)
                          \div 100
    IN  IF Contains(<<"f", "i", "r", "s", "t">>, lower(last_line))
        THEN <<0, confidence>>
        ELSE IF Contains(<<"s", "e", "c", "o", "n", "d">>, lower(last_line))
        THEN <<1, confidence>>
        ELSE <<0, confidence>>

\* BinaryReviewer.interpret(response): (choice, confidence); re.search finds the
\* first match of the pattern
binary_interpret(response) ==
    LET last_line == strip(LastLine(strip(response)))
        number == FindNumbers(last_line, 1)
        confidence == ClampConfidence(IF number # <<>> THEN ToFloat(number[1]) ELSE 0)
                          \div 100
    IN  IF Contains(<<"f", "i", "r", "s", "t">>, lower(last_line))
        THEN <<0, confidence>>
        ELSE IF Contains(<<"s", "e", "c", "o", "n", "d">>, lower(last_line))
        THEN <<1, confidence>>
        ELSE <<0, 0>>

\* the interpreters: Reviewer.interpret with output_type "bool" and "float",
\* BinaryReviewer.interpret, BinaryTrajectoryComparison.interpret
Shapes == {"bool", "float", "pairwise", "tournament"}

\* the verdict of the interpreter of the shape, or the exception it raises
Verdict(shape, response) ==
    CASE shape \in {"bool", "float"} ->
            [exc |-> "none",
             val |-> interpret([output_type |-> shape, reject_exit_status |-> TRUE,
                                n_sample |-> 1], response)]
      [] shape = "pairwise" -> [exc |-> "none", val |-> binary_interpret(response)]
      [] shape = "tournament" -> [exc |-> "none", val |-> interpret_comparison(response)]

\* a call of the interpreter of args.shape with the next response of args
interpret_call ==
    /\ args # <<>>
    /\ args.op = "interpret"
    /\ Len(ret.val) < Len(args.responses)
    /\ LET verdict == Verdict(args.shape, args.responses[Len(ret.val) + 1])
       IN  ret' = [op |-> "interpret", exc |-> verdict.exc,
                   val |-> Append(ret.val, verdict)]
    /\ UNCHANGED <<args, tvars, loop_config, model, submissions, reviews,
                   n_consec_exit_cost, terminal_temperature>>

\* an interpreter is called with one response, then with another
InitInterpret ==
    /\ NoRetryLoop
    /\ NoTournament
    /\ args \in [op : {"interpret"}, shape : Shapes,
                  responses : SeqsOfLen(InterpretResponses, 2)]

NextInterpret == interpret_call

SpecInterpret == InitInterpret /\ [][NextInterpret]_vars

-----------------------------------------------------------------------------
(* Reviewer.review, called on its own *)

\* " submitted\n"
StatusSubmittedPadded == <<" ">> \o StatusSubmitted \o <<"\n">>

\* the submissions reviewed: no exit status, "", "submitted", " submitted\n",
\* "Exit_Cost"
ReviewSubmissions ==
    {[info |-> [exit_status |-> e]] :
        e \in {<<>>, <<<<>>>>, <<StatusSubmitted>>, <<StatusSubmittedPadded>>,
               <<StatusExitCostCapital>>}}

\* "1" and "0"
ResponseOne == <<"1">>
ResponseZero == <<"0">>

\* the responses of the model to the queries of a review
ReviewResponses == {ResponseOne, ResponseZero, ResponseTie, ResponseSuccess}

\* the reviewer configurations
ReviewConfigs ==
    [output_type : {"bool", "float"}, reject_exit_status : BOOLEAN,
     n_sample : 1..MaxReviewSamples]

\* a call of review(instance, submission); args.answers are the responses the
\* model gives to its queries
review_call ==
    /\ args # <<>>
    /\ args.op = "review"
    /\ ret.op = "none"
    /\ ret' = [op |-> "review", exc |-> "none",
               val |-> <<[result |-> review(args.config, args.submission, args.answers),
                          queries |-> ReviewQueries(args.config, args.submission)]>>]
    /\ UNCHANGED <<args, tvars, loop_config, model, submissions, reviews,
                   n_consec_exit_cost, terminal_temperature>>

InitReview ==
    /\ NoRetryLoop
    /\ NoTournament
    /\ \E config \in ReviewConfigs :
          args \in [op : {"review"}, config : {config}, submission : ReviewSubmissions,
                    answers : SeqsOfLen(ReviewResponses, config.n_sample)]

NextReview == review_call

SpecReview == InitReview /\ [][NextReview]_vars

-----------------------------------------------------------------------------
(* GraveToCradle: the texts forwarded from past attempts to the next one *)

\* "The following previous submissions were deemed to be incorrect:"
ForwardedHeader ==
    <<"T", "h", "e", " ", "f", "o", "l", "l", "o", "w", "i", "n", "g", " ", "p", "r",
      "e", "v", "i", "o", "u", "s", " ", "s", "u", "b", "m", "i", "s", "s", "i", "o",
      "n", "s", " ", "w", "e", "r", "e", " ", "d", "e", "e", "m", "e", "d", " ", "t",
      "o", " ", "b", "e", " ", "i", "n", "c", "o", "r", "r", "e", "c", "t", ":">>

\* "Submission " and "Review "
SubmissionLabel ==
    <<"S", "u", "b", "m", "i", "s", "s", "i", "o", "n", " ">>
ReviewLabel ==
    <<"R", "e", "v", "i", "e", "w", " ">>

\* ":\n\n" and "\n\n"
ColonBreak == <<":", "\n", "\n">>
Break == <<"\n", "\n">>

\* the key of the mapping that get_forwarded_vars returns
ForwardedKey == "failed_verdicts_with_submissions"

\* str(d) for a digit d
DigitChar(d) ==
    CASE d = 0 -> "0" [] d = 1 -> "1" [] d = 2 -> "2" [] d = 3 -> "3" [] d = 4 -> "4"
      [] d = 5 -> "5" [] d = 6 -> "6" [] d = 7 -> "7" [] d = 8 -> "8" [] d = 9 -> "9"

\* str(n) for a natural number n
RECURSIVE StrOfNat(_)
StrOfNat(n) ==
    IF n < 10 THEN <<DigitChar(n)>> ELSE StrOfNat(n \div 10) \o <<DigitChar(n % 10)>>

\* sep.join(lines)
RECURSIVE join(_, _)
join(sep, lines) ==
    IF lines = <<>> THEN <<>>
    ELSE IF Len(lines) = 1 THEN lines[1]
    ELSE lines[1] \o sep \o join(sep, Tail(lines))

\* [i for i, r in enumerate(revs) if not r.accept], from list position i on
\* (indices are 0-based)
RECURSIVE FailedIdxs(_, _)
FailedIdxs(revs, i) ==
    IF i > Len(revs) THEN <<>>
    ELSE (IF revs[i].accept = 0 THEN <<i - 1>> ELSE <<>>) \o FailedIdxs(revs, i + 1)

\* f"Submission {i + 1}:\n\n{submission}\n\nReview {i + 1}:\n\n{review}"
ForwardedBlock(i, submission, review_output) ==
    SubmissionLabel \o StrOfNat(i + 1) \o ColonBreak \o submission \o Break
        \o ReviewLabel \o StrOfNat(i + 1) \o ColonBreak \o review_output

\* not info.get("submission"): the submission text is missing or empty
NoSubmissionText(submission) ==
    \/ submission.info.submission = <<>>
    \/ submission.info.submission[1] = <<>>

\* MsgLines with the attempts numbered by their place in the lists
RECURSIVE MsgLines_by_attempt(_, _, _, _)
MsgLines_by_attempt(subs, revs, failed_idxs, i) ==
    IF i >= Len(failed_idxs) THEN <<>>
    ELSE LET idx == failed_idxs[i + 1]
         IN  (IF NoSubmissionText(subs[idx + 1])
              THEN <<>>
              ELSE <<ForwardedBlock(idx, subs[idx + 1].info.submission[1],
                                    revs[idx + 1].outputs[1])>>)
             \o MsgLines_by_attempt(subs, revs, failed_idxs, i + 1)

\* the lines that the loop of get_forwarded_vars appends to msg_lines, from
\* the i-th (0-based) entry of failed_idxs on
RECURSIVE MsgLines(_, _, _, _)
MsgLines(subs, revs, failed_idxs, i) ==
    IF i >= Len(failed_idxs) THEN <<>>
    ELSE LET idx == failed_idxs[i + 1]
         IN  (IF NoSubmissionText(subs[idx + 1])
              THEN <<>>
              ELSE <<ForwardedBlock(i, subs[idx + 1].info.submission[1],
                                    revs[idx + 1].outputs[1])>>)
             \o MsgLines(subs, revs, failed_idxs, i + 1)

\* get_forwarded_vars with no entry in the mapping when no attempt was rejected
get_forwarded_vars_no_key(subs, revs) ==
    IF Len(subs) # Len(revs)
    THEN [exc |-> "AssertionError", val |-> <<>>]
    ELSE LET failed_idxs == FailedIdxs(revs, 1)
         IN  IF failed_idxs = <<>>
             THEN [exc |-> "none", val |-> <<<<>>>>]
             ELSE [exc |-> "none",
                   val |-> <<(ForwardedKey :>
                                join(Break, <<ForwardedHeader>>
                                            \o MsgLines(subs, revs, failed_idxs, 0)))>>]

\* GraveToCradle.get_forwarded_vars(submissions, reviews, breviews): the
\* exception it raises, or the mapping it returns
get_forwarded_vars(subs, revs) ==
    IF Len(subs) # Len(revs)
    THEN [exc |-> "AssertionError", val |-> <<>>]
    ELSE LET failed_idxs == FailedIdxs(revs, 1)
         IN  IF failed_idxs = <<>>
             THEN [exc |-> "none", val |-> <<(ForwardedKey :> <<>>)>>]
             ELSE [exc |-> "none",
                   val |-> <<(ForwardedKey :>
                                join(Break, <<ForwardedHeader>>
                                            \o MsgLines(subs, revs, failed_idxs, 0)))>>]

\* "fix a" and "fix b"
PatchA == <<"f", "i", "x", " ", "a">>
PatchB == <<"f", "i", "x", " ", "b">>

\* info.get("submission") of an attempt: None, "", and the patches
SubmissionTexts == {<<>>, <<<<>>>>, <<PatchA>>, <<PatchB>>}

\* the answers of the judge to the queries of the review of an attempt
ForwardAnswers == {<<ResponseZero, ResponseTie>>, <<ResponseHigh>>, <<ResponseTie>>}

\* the attempts of a session: a submission that ended with "submitted", with or
\* without a submission text, and its review
ForwardAttempts ==
    {LET sub == [info |-> [exit_status |-> <<StatusSubmitted>>, submission |-> t]]
     IN  [submission |-> sub,
          review |-> review([output_type |-> "float", reject_exit_status |-> TRUE,
                             n_sample |-> Len(a)], sub, a)] :
        t \in SubmissionTexts, a \in ForwardAnswers}

\* a call of get_forwarded_vars(submissions, reviews, breviews)
get_forwarded_vars_call ==
    /\ args # <<>>
    /\ args.op = "get_forwarded_vars"
    /\ ret.op = "none"
    /\ ret' = [op |-> "get_forwarded_vars",
               exc |-> get_forwarded_vars(args.submissions, args.reviews).exc,
               val |-> get_forwarded_vars(args.submissions, args.reviews).val]
    /\ UNCHANGED <<args, tvars, loop_config, model, submissions, reviews,
                   n_consec_exit_cost, terminal_temperature>>

InitForward ==
    /\ NoRetryLoop
    /\ NoTournament
    /\ \E n \in 0..MaxAttempts :
          \E attempts \in SeqsOfLen(ForwardAttempts, n) :
              args = [op |-> "get_forwarded_vars",
                      submissions |-> [i \in 1..n |-> attempts[i].submission],
                      reviews |-> [i \in 1..n |-> attempts[i].review]]

NextForward == get_forwarded_vars_call

SpecForward == InitForward /\ [][NextForward]_vars

-----------------------------------------------------------------------------
(* TrajectoryFormatter: trajectories formatted for the prompts *)

\* the most steps of a trajectory
MaxSteps == 3

\* "[Output omitted]"
OutputOmitted ==
    <<"[", "O", "u", "t", "p", "u", "t", " ", "o", "m", "i", "t", "t", "e", "d", "]">>

\* s.startswith(f)
startswith(s, f) == Len(f) <= Len(s) /\ SubSeq(s, 1, Len(f)) = f

\* the loop over the prefixes fs: action starts with one of them
StartsWithAny(action, fs) == \E k \in 1..Len(fs) : startswith(action, fs[k])

\* TrajectoryFormatter._include_step(item)
include_step(config, item) == ~StartsWithAny(strip(item.action), config.filter)

\* TrajectoryFormatter._include_step_output(item, i_step, n_steps)
include_step_output(config, item, i_step, n_steps) ==
    IF /\ config.only_show_last_n_output > 0
       /\ i_step < n_steps - config.only_show_last_n_output
    THEN FALSE
    ELSE ~StartsWithAny(strip(item.action), config.output_filter)

\* the copy of the step that _format_trajectory_step works on
StepCopy(config, step, i_step, n_steps) ==
    IF ~include_step_output(config, step, i_step, n_steps)
    THEN [step EXCEPT !.observation = OutputOmitted]
    ELSE step

\* TrajectoryFormatter._format_trajectory_step: the item rendered, held as the
\* values the template is rendered with (the fields of the step copy, i_step
\* and i_traj)
format_trajectory_step(config, step, i_step, n_steps, i_traj) ==
    LET copy == StepCopy(config, step, i_step, n_steps)
    IN  [action |-> copy.action, observation |-> copy.observation,
         i_step |-> i_step, i_traj |-> i_traj]

\* format_trajectory without the deepcopy of the steps: the steps of the
\* trajectory are the ones whose observation is replaced
format_trajectory_in_place(config, trajectory, i_traj) ==
    LET traj_messages == SelectSeq(trajectory, LAMBDA step : include_step(config, step))
        n_steps == Len(traj_messages)
        i_stepOf(k) == Cardinality({j \in 1..k : include_step(config, trajectory[j])}) - 1
    IN  [text |-> [k \in 1..n_steps |->
                      format_trajectory_step(config, traj_messages[k], k - 1, n_steps,
                                             i_traj)],
         trajectory |-> [k \in 1..Len(trajectory) |->
                            IF include_step(config, trajectory[k])
                            THEN StepCopy(config, trajectory[k], i_stepOf(k), n_steps)
                            ELSE trajectory[k]]]

\* TrajectoryFormatter.format_trajectory(trajectory, i_traj): the text, held
\* as the rendered items that "\n\n" joins, and the trajectory after the call
format_trajectory(config, trajectory, i_traj) ==
    LET traj_messages == SelectSeq(trajectory, LAMBDA step : include_step(config, step))
        n_steps == Len(traj_messages)
    IN  [text |-> [k \in 1..n_steps |->
                      format_trajectory_step(config, traj_messages[k], k - 1, n_steps,
                                             i_traj)],
         trajectory |-> trajectory]

\* " ls": the action with whitespace in front
ActionLsPadded == <<" ">> \o ActionLs

\* observations
ObservationA == <<"a">>
ObservationB == <<"b">>

\* the steps of the trajectories
TrajectorySteps ==
    {[action |-> ActionLs, observation |-> ObservationA],
     [action |-> ActionLsPadded, observation |-> ObservationB],
     [action |-> ActionCd, observation |-> ObservationA],
     [action |-> ActionPwd, observation |-> ObservationB],
     [action |-> ActionPwd, observation |-> OutputOmitted]}

\* the formatter configurations
TrajFormatterConfigs ==
    [filter : {<<>>, <<ActionCd>>, <<ActionLs, ActionPwd>>},
     output_filter : {<<>>, <<ActionCd, ActionLs>>},
     only_show_last_n_output : 0..2]

\* a call of format_trajectory(trajectory, i_traj)
format_trajectory_call ==
    /\ args # <<>>
    /\ args.op = "format_trajectory"
    /\ ret.op = "none"
    /\ ret' = [op |-> "format_trajectory", exc |-> "none",
               val |-> <<format_trajectory(args.config, args.trajectory, args.i_traj)>>]
    /\ UNCHANGED <<args, tvars, loop_config, model, submissions, reviews,
                   n_consec_exit_cost, terminal_temperature>>

InitFormat ==
    /\ NoRetryLoop
    /\ NoTournament
    /\ \E n \in 0..MaxSteps :
          args \in [op : {"format_trajectory"}, config : TrajFormatterConfigs,
                    trajectory : SeqsOfLen(TrajectorySteps, n), i_traj : {1, 2}]

NextFormat == format_trajectory_call

SpecFormat == InitFormat /\ [][NextFormat]_vars

-----------------------------------------------------------------------------
(* Properties of the retry loop *)

\* the review scores, in order
Scores == [i \in 1..Len(reviews) |-> reviews[i].accept]

\* a and b are within 1e-10 of each other
Within(a, b) == Abs(a - b) <= Eps

\* m is the maximum of the review scores
IsMaxScore(m) ==
    /\ \E i \in 1..Len(Scores) : Scores[i] = m
    /\ \A i \in 1..Len(Scores) : Scores[i] <= m

\* the exit statuses that name an exit-due-to-cost condition
ExitCostStatuses == {<<StatusSubmittedExitCost>>, <<StatusExitCostCapital>>}

\* the model is a human at the keyboard
HumanAtKeyboard == model.kind \in {"HumanModel", "HumanThoughtModel"}

\* the budget the model has left
RemainingBudget == model.instance_cost_limit - model.instance_cost

\* the keys of the score-tier table that the maximum score m reaches
TierKeys(m) == {k \in DOMAIN loop_config.max_attempts_for_score : k <= m}

\* (a) the tier of the maximum score m has been attempted enough times
StopTier(m) ==
    /\ TierKeys(m) # {}
    /\ LET tier == CHOOSE k \in TierKeys(m) : \A j \in TierKeys(m) : j <= k
           max_attempts == loop_config.max_attempts_for_score[tier]
       IN  max_attempts > 0 /\ n_attempts >= max_attempts

\* (b) the consecutive-exit-cost counter has reached its configured maximum
StopExitCost ==
    /\ loop_config.max_n_consec_exit_cost > 0
    /\ n_consec_exit_cost >= loop_config.max_n_consec_exit_cost

\* (c) the cumulative cost exceeds the cost limit cost_limit (0: no limit)
StopCost(cost_limit) == cost_limit > 0 /\ model.instance_cost > cost_limit

\* (d) the attempts that score at least threshold have reached cap (0: no cap)
StopAccepted(threshold, cap) ==
    cap > 0 /\ Cardinality({i \in 1..Len(Scores) : Scores[i] >= threshold}) >= cap

\* (e) the remaining budget is below the minimum for a new attempt
StopBudget ==
    /\ loop_config.min_budget_for_new_attempt > 0
    /\ RemainingBudget < loop_config.min_budget_for_new_attempt

\* the stop conditions the configuration of the loop carries are all disabled
OtherStopsDisabled ==
    /\ loop_config.max_attempts_for_score = <<>>
    /\ loop_config.max_n_consec_exit_cost = 0
    /\ loop_config.min_budget_for_new_attempt = 0

\* retry() returns the boolean b
RetryReturns(b) == retry.exc = "none" /\ retry.val = <<b>>

\* the call of retry() that has just been made returned the boolean b
RetryReturned(b) == ret.exc = "none" /\ ret.val = <<b>>

\* C1: between operations, the submissions list and the reviews list have the
\* same length.
C1_SameLength == Len(submissions) = Len(reviews)

\* C1 witness: a second submission has just been recorded and reviewed.
C1_Witness == ret.op = "on_submit" /\ Len(submissions) = 2 /\ Len(reviews) = 2

\* C2: for a non-empty list of reviews, get_best() returns the smallest index
\* whose score is within 1e-10 of the maximum score.
C2_BestIsEarliestMax ==
    reviews # <<>> =>
        LET best == get_best(reviews)
        IN  /\ best \in 0..(Len(reviews) - 1)
            /\ \E m \in {Scores[i] : i \in 1..Len(Scores)} :
                  /\ IsMaxScore(m)
                  /\ Within(Scores[best + 1], m)
                  /\ \A j \in 0..(best - 1) : ~Within(Scores[j + 1], m)

\* C2 witness: get_best() has returned 1 for the scores [0.4, 0.9, 0.9].
C2_Witness ==
    /\ ret.op = "get_best"
    /\ Scores = <<40, 90, 90>>
    /\ ret.val = <<1>>

\* C3: get_best() called before any submission was reviewed returns a value that
\* is no valid submission index (index 0 in particular).
C3_NoneSentinel ==
    (ret.op = "get_best" /\ reviews = <<>>) => ret.val[1] \notin 0..(MaxAttempts - 1)

\* C4: with the other stop conditions disabled and a positive cumulative cost
\* limit, retry() returns true while the cost spent is at or below the limit and
\* false once it exceeds the limit.
C4_CostLimitStops ==
    (ret.op = "retry" /\ OtherStopsDisabled /\ reviews # <<>> /\ ~HumanAtKeyboard) =>
        \A cost_limit \in 1..MaxCost : RetryReturned(~StopCost(cost_limit))

\* C5: when the tier of the maximum score (the entry with the largest key that
\* the score reaches) has max_attempts > 0 and as many attempts are recorded,
\* retry() returns false; when the score is below every key, or the table is
\* empty, the table does not stop the loop.
C5_TierStops ==
    reviews # <<>> =>
        LET m == CHOOSE x \in {Scores[i] : i \in 1..Len(Scores)} : IsMaxScore(x)
        IN  /\ StopTier(m) => RetryReturns(FALSE)
            /\ (TierKeys(m) = {} /\ ~StopExitCost /\ ~StopBudget) => RetryReturns(TRUE)

\* C5 witness: retry() has returned false on the tier alone, under a table of two
\* tiers, for a score that reaches both keys.
C5_Witness ==
    /\ ret.op = "retry" /\ ret.val = <<FALSE>>
    /\ Cardinality(TierKeys(Scores[1])) = 2
    /\ Len(Scores) = 1
    /\ ~StopExitCost /\ ~StopBudget

C7_AcceptedCapStops ==
    (ret.op = "retry" /\ reviews # <<>> /\ ~HumanAtKeyboard) =>
        \A threshold \in {50, 90} : \A cap \in 1..MaxAttempts :
            StopAccepted(threshold, cap) => RetryReturned(FALSE)

C9_StopsIffAnyCondition ==
    (ret.op = "retry" /\ reviews # <<>> /\ ~HumanAtKeyboard) =>
        LET m == CHOOSE x \in {Scores[i] : i \in 1..Len(Scores)} : IsMaxScore(x)
        IN  \A cost_limit \in 0..MaxCost : \A threshold \in {50, 90} :
              \A cap \in 0..MaxAttempts :
                RetryReturned(~(\/ StopTier(m)
                                \/ StopExitCost
                                \/ StopCost(cost_limit)
                                \/ StopAccepted(threshold, cap)
                                \/ StopBudget))

\* C10: on_submit adds one to the consecutive-exit-cost counter when the exit
\* status of the submission names an exit-due-to-cost condition, and sets the
\* counter to zero for every other exit status, a missing or empty one included.
C10_CounterStep ==
    [][\A s \in Submissions :
          (ret'.op = "on_submit" /\ submissions' = Append(submissions, s)) =>
              n_consec_exit_cost' =
                  IF s.info.exit_status \in ExitCostStatuses
                  THEN n_consec_exit_cost + 1
                  ELSE 0]_vars

\* C10 witness: the counter stands at two after two exit-cost submissions in a
\* row that followed a submission of another status.
C10_Witness ==
    /\ ret.op = "on_submit"
    /\ Len(submissions) = 3
    /\ submissions[1].info.exit_status \notin ExitCostStatuses
    /\ n_consec_exit_cost = 2

\* the review rev is one that the reviewer can give of the submission s
IsReviewOf(rev, s) ==
    \E answers \in SeqsOfLen(Responses, loop_config.reviewer_config.n_sample) :
        rev = review(loop_config.reviewer_config, s, answers)

\* C35: on_submit(s) appends s to the submissions and then the review of s to
\* the reviews, once each, so that after it as many reviews as submissions
\* are recorded (the review of an attempt is there before the next attempt is
\* recorded) and reviews[i] is the review of submissions[i] for every i.
C35_SubmitThenReview ==
    [][ret'.op = "on_submit" =>
          /\ \E s \in RetrySubmissions :
                /\ submissions' = Append(submissions, s)
                /\ Len(reviews') = Len(reviews) + 1
                /\ SubSeq(reviews', 1, Len(reviews)) = reviews
                /\ IsReviewOf(reviews'[Len(reviews')], s)
          /\ Len(reviews') = Len(submissions')
          /\ \A i \in 1..Len(submissions') : IsReviewOf(reviews'[i], submissions'[i])]_vars

C35_Witness ==
    /\ ret.op = "on_submit"
    /\ Len(submissions) = 3
    /\ submissions[1].info.exit_status = <<StatusSubmitted>>
    /\ submissions[2].info.exit_status = <<>>
    /\ submissions[3].info.exit_status = <<StatusSubmittedExitCost>>
    /\ reviews[1].outputs = <<ResponseLow>>
    /\ reviews[2].outputs = <<AnswerNoExitStatus>>
    /\ \A i \in 1..3 : IsReviewOf(reviews[i], submissions[i])

\* the submission has an exit status that contains "exit_cost", in any case
HasExitCostStatus(s) ==
    /\ s.info.exit_status # <<>>
    /\ \E p \in 0..(Len(s.info.exit_status[1]) - Len(ExitCostWord)) :
          \A j \in 1..Len(ExitCostWord) :
              LowerChar(s.info.exit_status[1][p + j]) = ExitCostWord[j]

\* the length of the longest suffix of the submissions in which every
\* submission has an exit-cost exit status
ExitCostSuffix ==
    CHOOSE k \in 0..Len(submissions) :
        /\ \A j \in (Len(submissions) - k + 1)..Len(submissions) :
              HasExitCostStatus(submissions[j])
        /\ k < Len(submissions) => ~HasExitCostStatus(submissions[Len(submissions) - k])

\* C36: in every state the consecutive-exit-cost counter is the length of the
\* longest suffix of the submissions in which every submission has an
\* exit-cost exit status, and so is at most the number of attempts.
C36_CounterIsSuffix ==
    /\ n_consec_exit_cost = ExitCostSuffix
    /\ n_consec_exit_cost <= n_attempts

C36_Witness ==
    /\ Len(submissions) = 3
    /\ submissions[1].info.exit_status = <<StatusSubmittedExitCost>>
    /\ submissions[2].info.exit_status = <<StatusSubmitted>>
    /\ submissions[3].info.exit_status = <<StatusExitCostCapital>>
    /\ n_consec_exit_cost = 1
    /\ ret.op = "retry"

\* C37: a call of retry() or of get_best() changes neither the submissions,
\* nor the reviews, nor the consecutive-exit-cost counter, nor the temperature
\* captured, nor anything else of the loop or the model; a call that follows a
\* call of the same operation returns what that one returned.
C37_ReadOnlyCalls ==
    [][ret'.op \in {"retry", "get_best"} =>
          /\ submissions' = submissions
          /\ reviews' = reviews
          /\ n_consec_exit_cost' = n_consec_exit_cost
          /\ terminal_temperature' = terminal_temperature
          /\ model' = model
          /\ loop_config' = loop_config
          /\ ret.op = ret'.op => ret' = ret
          /\ \A b \in BOOLEAN :
                (ret'.op = "retry" /\ RetryReturned(b)') => RetryReturns(b)']_vars

C37_Witness ==
    /\ ret.op = "retry"
    /\ RetryReturned(FALSE)
    /\ Len(submissions) = 2
    /\ n_consec_exit_cost = 2
    /\ terminal_temperature # <<>>
    /\ model.instance_cost > 0

\* the score-tier table of the loop has a tier, a positive max_attempts for
\* every tier, and a smallest key that no review score is below (the scores are
\* at least 0)
TableBoundsAttempts ==
    LET table == loop_config.max_attempts_for_score
    IN  /\ DOMAIN table # {}
        /\ \A k \in DOMAIN table : table[k] > 0
        /\ \E k \in DOMAIN table : k <= 0

\* the largest max_attempts of the table
LargestMaxAttempts ==
    LET table == loop_config.max_attempts_for_score
    IN  CHOOSE m \in {table[k] : k \in DOMAIN table} : \A k \in DOMAIN table : table[k] <= m

\* C39: under a score-tier table with a positive max_attempts for every tier
\* and a smallest key at or below every score, retry() returns false once
\* max(max_attempts) attempts are recorded, whatever the scores, the exit
\* statuses and the costs: a call of retry() that returns true has fewer
\* attempts behind it, so the loop that repeats while retry() is true ends
\* after at most max(max_attempts) attempts.
C39_RetryLoopEnds ==
    (TableBoundsAttempts /\ reviews # <<>>) =>
        /\ retry.exc = "none"
        /\ n_attempts >= LargestMaxAttempts => RetryReturns(FALSE)
        /\ (ret.op = "retry" /\ RetryReturned(TRUE)) => n_attempts < LargestMaxAttempts

C39_Witness ==
    /\ ret.op = "retry"
    /\ RetryReturned(FALSE)
    /\ TableBoundsAttempts
    /\ LargestMaxAttempts = 3
    /\ n_attempts = 3
    /\ \A i \in 1..3 : Scores[i] < 50
    /\ n_consec_exit_cost = 0
    /\ loop_config.min_budget_for_new_attempt = 0

-----------------------------------------------------------------------------
(* The cost limit of an attempt and the temperature of an attempt *)

AttemptAborted ==
    ret.op = "on_model_query" /\ ret.exc = "AttemptCostLimitExceededError"

\* C11: on_model_query raises AttemptCostLimitExceededError exactly when a limit
\* is configured (> 0) and the cost of the attempt is greater than it; at a cost
\* equal to the limit it returns.
C11_AbortsIffExceeded ==
    [][\A cost \in 0..MaxCost :
          on_model_query(cost) =>
              ((ret'.exc = "AttemptCostLimitExceededError")
                  <=> (loop_config.attempt_cost_limit > 0
                       /\ cost > loop_config.attempt_cost_limit))]_vars

\* C12: a call of on_model_query, returning or raising, changes neither the
\* submissions, nor the reviews, nor the count of consecutive exit-cost
\* submissions, nor the temperature of the model and the one kept to restore.
C12_QueryHookReadOnly ==
    [][ret'.op = "on_model_query" =>
          /\ submissions' = submissions
          /\ reviews' = reviews
          /\ n_consec_exit_cost' = n_consec_exit_cost
          /\ terminal_temperature' = terminal_temperature
          /\ model'.temperature = model.temperature]_vars

C12_Witness ==
    /\ AttemptAborted
    /\ Len(submissions) = 2
    /\ Len(reviews) = 2
    /\ n_consec_exit_cost = 2
    /\ terminal_temperature # <<>>
    /\ model.temperature # terminal_temperature[1]

\* C13: when on_model_query has aborted the attempt, retry() called next returns
\* a boolean and raises nothing, in the first attempt as in any other.
C13_RetryAfterAbort ==
    [][(AttemptAborted /\ ret'.op = "retry") =>
          (ret'.exc = "none" /\ ret'.val \in {<<TRUE>>, <<FALSE>>})]_vars

\* the temperature of the model before any attempt was started
OriginalTemperature == ModelOf("LiteLLMModel").temperature

\* C14: on a model whose temperature can be set, after on_attempt_started(i) the
\* temperature is temperature_override[i] if i < K, and otherwise the one the
\* model had before the first on_attempt_started(0), whatever calls came before.
C14_TemperatureOfAttempt ==
    (ret.op = "on_attempt_started" /\ IsInstance(model.kind, "LiteLLMModel")) =>
        model.temperature =
            IF n_attempts < Len(loop_config.temperature_override)
            THEN loop_config.temperature_override[n_attempts + 1]
            ELSE OriginalTemperature

-----------------------------------------------------------------------------
(* Properties of the action tournament *)

\* get_action has returned a completion
Returned == pc = "done" /\ output[1].exc = "none"

\* get_action has raised exc
Raised(exc) == pc = "done" /\ output[1].exc = exc

\* the completion get_action returned
ReturnedCompletion == output[1].val.completion

\* the candidate that won the elimination
Champion == parsed_completions[best_idx + 1]

\* the completions that parse, as (thought, action)
Parsed == ParseLoop(completions)

AllParse == \A k \in 1..Len(completions) : parse_actions(completions[k]).exc = "none"
NoneParses == \A k \in 1..Len(completions) : parse_actions(completions[k]).exc # "none"

\* the action texts of the completions that parse
ParsedActions == {Parsed[k][2] : k \in 1..Len(Parsed)}

\* c is a completion of the input that parses to the action text
IsRawCompletionOf(c, action) ==
    /\ \E k \in 1..Len(completions) : completions[k] = c
    /\ parse_actions(c).exc = "none"
    /\ parse_actions(c).val[2] = action

\* C15: the completion the tournament returns is a completion of the input
\* whose parsed action is the action of the champion, also when completions
\* failed to parse or duplicates were collapsed.
C15_ReturnsChampion ==
    Returned => IsRawCompletionOf(ReturnedCompletion, Champion[2])

\* C16: with N completions that all parse to pairwise distinct actions, the
\* tournament has asked the model for N - 1 comparisons when it returns, and
\* its log has N - 1 entries, whatever the verdicts.
C16_ComparisonCount ==
    (Returned /\ AllParse /\ Cardinality(ParsedActions) = Len(completions)) =>
        /\ n_comparisons = Len(completions) - 1
        /\ Len(output[1].val.comparison_log) = Len(completions) - 1

C16_Witness ==
    /\ Returned
    /\ picker = "action_sampler"
    /\ AllParse
    /\ Len(completions) = 3
    /\ Cardinality(ParsedActions) = 3
    /\ n_comparisons = 2
    /\ best_idx = 1

\* the positions in the parsed completions of the candidates with the action
PositionsOf(action) == {m \in 1..Len(Parsed) : Parsed[m][2] = action}

\* the least position of a set of positions
First(positions) == CHOOSE m \in positions : \A j \in positions : m <= j

\* the positions of the longest thoughts among the candidates with the action
LongestOf(action) ==
    {m \in PositionsOf(action) :
        \A j \in PositionsOf(action) : Len(Parsed[j][1]) <= Len(Parsed[m][1])}

\* C17: filter_duplicates yields one entry per distinct action, in the order of
\* first occurrence; the count of an entry is the number of candidates with its
\* action, its thought the earliest of the longest thoughts among them.
C17_FilterDuplicates ==
    (picker = "action_sampler" /\ (pc = "loop" \/ Returned)) =>
        /\ {parsed_completions[k][2] : k \in 1..Len(parsed_completions)} = ParsedActions
        /\ Len(parsed_completions) = Cardinality(ParsedActions)
        /\ \A j, k \in 1..Len(parsed_completions) :
              j < k => First(PositionsOf(parsed_completions[j][2]))
                           < First(PositionsOf(parsed_completions[k][2]))
        /\ \A k \in 1..Len(parsed_completions) :
              LET action == parsed_completions[k][2]
              IN  /\ parsed_completions[k][3] = Cardinality(PositionsOf(action))
                  /\ parsed_completions[k][1] = Parsed[First(LongestOf(action))][1]

C17_Witness ==
    /\ picker = "action_sampler"
    /\ pc = "loop"
    /\ completions = <<Completion(ThoughtB, ActionLs), Completion(ThoughtLong, ActionCd),
                       Completion(ThoughtA, ActionLs)>>
    /\ parsed_completions = <<<<ThoughtB, ActionLs, 2>>, <<ThoughtLong, ActionCd, 1>>>>

\* C18: of three completions that parse, two with one action and the third with
\* another, action_sampler.py asks for one comparison, of the collapsed pair
\* with the third, and returns a completion of the input whose action is the
\* action of the winner of that comparison.
C18_TwoOfThreeAlike ==
    (Returned /\ picker = "action_sampler" /\ Len(completions) = 3 /\ AllParse
        /\ Cardinality(ParsedActions) = 2) =>
        /\ n_comparisons = 1
        /\ Len(comparison_log) = 1
        /\ comparison_log[1].comparison_between = <<0, 1>>
        /\ {comparison_log[1].messages.action1, comparison_log[1].messages.action2}
               = ParsedActions
        /\ Cardinality({c \in {comparison_log[1].messages.counts[1],
                                comparison_log[1].messages.counts[2]} : c = 2}) = 1
        /\ IsRawCompletionOf(ReturnedCompletion,
                             parsed_completions[comparison_log[1].idx + 1][2])

\* C19: when one candidate is left after the duplicates are filtered, the
\* tournament returns the completion of that candidate with an empty log, and
\* has asked the model for no comparison.
C19_SingleCandidate ==
    (Returned /\ picker = "action_sampler" /\ Len(parsed_completions) = 1) =>
        /\ n_comparisons = 0
        /\ output[1].val.comparison_log = <<>>
        /\ IsRawCompletionOf(ReturnedCompletion, parsed_completions[1][2])

\* C20: get_action raises FormatError exactly when no completion parses, and
\* then has asked the model for no comparison and tried nothing again; when a
\* completion parses, the candidates are the completions that parse and no
\* error is raised.
C20_FormatError ==
    /\ pc = "loop" => ~NoneParses
    /\ pc = "done" =>
          /\ Raised("FormatError") <=> NoneParses
          /\ Raised("FormatError") =>
                (n_comparisons = 0 /\ comparison_log = <<>> /\ parsed_completions = <<>>)
          /\ ~NoneParses =>
                /\ Returned
                /\ {parsed_completions[k][2] : k \in 1..Len(parsed_completions)}
                       = ParsedActions
                /\ picker = "best_response_picker" => parsed_completions = Parsed

C20_Witness ==
    /\ Raised("FormatError")
    /\ Len(completions) = 2
    /\ n_comparisons = 0

\* the challengers that won their comparison, in the order of the log
Winners(log) == SelectSeq(log, LAMBDA entry : entry.idx = 1)

\* the champion the log leaves: the challenger of the last comparison a
\* challenger won, the first candidate if none did
ChampionOf(log) ==
    IF Winners(log) = <<>> THEN 0
    ELSE Winners(log)[Len(Winners(log))].comparison_between[2]

\* C21: the champion is the first candidate until a comparison is interpreted
\* as 1, and then the challenger of that comparison; a verdict 0, which a
\* response that names neither side gets, keeps the champion; so the champion
\* is always the challenger of the last comparison a challenger won.
C21_ChampionRule ==
    [][/\ pc' = "loop" /\ pc = "start" => best_idx' = 0
       /\ n_comparisons' = n_comparisons + 1 =>
             LET entry == comparison_log'[Len(comparison_log')]
             IN  /\ entry.idx \in {0, 1}
                 /\ entry.response \in {ResponseFirst, ResponseTie} => entry.idx = 0
                 /\ entry.response = ResponseSecond => entry.idx = 1
                 /\ best_idx' = IF entry.idx = 1 THEN Head(todo) ELSE best_idx
       /\ pc' \in {"loop", "done"} => best_idx' = ChampionOf(comparison_log')]_vars

C21_Witness ==
    /\ Returned
    /\ Len(comparison_log) = 2
    /\ comparison_log[1].idx = 1
    /\ comparison_log[2].response = ResponseTie
    /\ best_idx = 1

\* C22: a comparison appends one entry to the log, with the indices of the
\* champion and the challenger at the time of the comparison, the response and
\* the winner; no step changes or removes an entry; the challengers of the
\* entries are 1, 2, ... up to the last candidate, each above its champion.
C22_LogAppendOnly ==
    [][/\ Len(comparison_log') >= Len(comparison_log)
       /\ SubSeq(comparison_log', 1, Len(comparison_log)) = comparison_log
       /\ Len(comparison_log') = Len(comparison_log)
              + (IF n_comparisons' = n_comparisons + 1 THEN 1 ELSE 0)
       /\ n_comparisons' = n_comparisons + 1 =>
             \E response \in ComparisonResponses :
                 /\ comparison_log'[Len(comparison_log')].comparison_between
                        = <<best_idx, Head(todo)>>
                 /\ comparison_log'[Len(comparison_log')].response = response
                 /\ comparison_log'[Len(comparison_log')].idx
                        = (IF best_idx' = best_idx THEN 0 ELSE 1)
       /\ \A k \in 1..Len(comparison_log') :
             /\ comparison_log'[k].comparison_between[2] = k
             /\ comparison_log'[k].comparison_between[1] < k
       /\ (pc' = "done" /\ output'[1].exc = "none") =>
             /\ Len(comparison_log') = Len(parsed_completions') - 1
             /\ output'[1].val.comparison_log = comparison_log']_vars

C22_Witness ==
    /\ Returned
    /\ Len(output[1].val.comparison_log) = 2
    /\ comparison_log[1].idx = 1
    /\ comparison_log[2].comparison_between = <<1, 2>>
    /\ comparison_log[2].idx = 0
    /\ comparison_log[2].response = ResponseFirst

\* the responses of the comparisons made so far, in order
LogResponses == [k \in 1..Len(comparison_log) |-> comparison_log[k].response]

\* the champion (0-based) of an elimination over the completions in their
\* order, after the verdicts of the responses: the challenger of a comparison
\* takes over when the verdict is 1
RECURSIVE ChampionAfter(_)
ChampionAfter(responses) ==
    IF responses = <<>> THEN 0
    ELSE IF interpret_comparison(responses[Len(responses)]) = 1
    THEN Len(responses)
    ELSE ChampionAfter(SubSeq(responses, 1, Len(responses) - 1))

\* the k-th comparison of that elimination: the champion after k - 1 verdicts
\* against completion k, as indices and as the thoughts and actions compared
ComparisonOf(responses, k) ==
    LET champion == ChampionAfter(SubSeq(responses, 1, k - 1))
    IN  [between |-> <<champion, k>>,
         first |-> parse_actions(completions[champion + 1]).val,
         second |-> parse_actions(completions[k + 1]).val]

\* C38: for completions that all parse to pairwise distinct actions, the
\* tournament of either class makes the comparisons, champion against
\* challenger, of the elimination over the completions in their order, and
\* returns the completion of its champion: what the two classes compare and
\* return depends on the completions and the verdicts only, so they agree.
C38_SameTournament ==
    (pc \in {"loop", "done"} /\ AllParse /\ Cardinality(ParsedActions) = Len(completions)) =>
        /\ Len(parsed_completions) = Len(completions)
        /\ \A k \in 1..Len(comparison_log) :
              LET entry == comparison_log[k]
                  expected == ComparisonOf(LogResponses, k)
              IN  /\ entry.comparison_between = expected.between
                  /\ <<entry.messages.thought1, entry.messages.action1>> = expected.first
                  /\ <<entry.messages.thought2, entry.messages.action2>> = expected.second
        /\ pc = "done" =>
              /\ Returned
              /\ Len(comparison_log) = Len(completions) - 1
              /\ ReturnedCompletion = completions[ChampionAfter(LogResponses) + 1]

C38_Witness ==
    /\ Returned
    /\ picker = "action_sampler"
    /\ AllParse
    /\ Len(completions) = 3
    /\ Cardinality(ParsedActions) = 3
    /\ completions[1].thought = completions[2].thought
    /\ LogResponses = <<ResponseSecond, ResponseTie>>
    /\ ReturnedCompletion = completions[2]

-----------------------------------------------------------------------------
(* Properties of the interpreters *)

\* the interpreter of the shape has been called with the first response
Interpreted(shape) == ret.op = "interpret" /\ args.shape = shape

\* the first response and what the interpreter made of it
Response1 == args.responses[1]
Verdict1 == ret.val[1]

\* the last line of the response, trimmed
VerdictLine(response) == strip(LastLine(strip(response)))

\* the word occurs in the line, in any case
Names(word, line) == Contains(word, lower(line))

WordFirst == <<"f", "i", "r", "s", "t">>
WordSecond == <<"s", "e", "c", "o", "n", "d">>
WordSuccess == <<"s", "u", "c", "c", "e", "s", "s">>
WordFail == <<"f", "a", "i", "l">>

\* the decimal numbers of the line, left to right, in units of 1/Scale
NumbersOf(line) ==
    [k \in 1..Len(FindNumbers(line, 1)) |-> ToFloat(FindNumbers(line, 1)[k])]

\* n percent as a confidence, at most 1
AsConfidence(n) == (IF n > 100 * Scale THEN 100 * Scale ELSE n) \div 100

\* C23 as stated: a last line with "second" gives winner 1, one with "first"
\* winner 0, in any case of the letters; a number in the line is the confidence,
\* at most 100 and divided by 100, so within [0, 1]; "... the answer is second
\* (90)" gives winner 1 with confidence 0.9.
C23_PairwiseVerdict_Original ==
    Interpreted("pairwise") =>
        LET line == VerdictLine(Response1)
        IN  /\ Names(WordSecond, line) => Verdict1.val[1] = 1
            /\ Names(WordFirst, line) => Verdict1.val[1] = 0
            /\ (NumbersOf(line) # <<>>
                   /\ (Names(WordFirst, line) \/ Names(WordSecond, line))) =>
                  \E k \in 1..Len(NumbersOf(line)) :
                      Verdict1.val[2] = AsConfidence(NumbersOf(line)[k])
            /\ Verdict1.val[2] >= 0 /\ Verdict1.val[2] <= Scale
            /\ Response1 = ResponseAnswerSecond => Verdict1.val = <<1, (9 * Scale) \div 10>>

\* C23: a last line with "first" gives winner 0, and one with "second" and
\* without "first" winner 1, in any case of the letters; the first number in
\* such a line is the confidence, at most 100 and divided by 100 (0 if there
\* is none), so within [0, 1]; "... the answer is second (90)" gives winner 1
\* with confidence 0.9.
C23_PairwiseVerdict ==
    Interpreted("pairwise") =>
        LET line == VerdictLine(Response1)
        IN  /\ Names(WordFirst, line) => Verdict1.val[1] = 0
            /\ (Names(WordSecond, line) /\ ~Names(WordFirst, line)) => Verdict1.val[1] = 1
            /\ (Names(WordFirst, line) \/ Names(WordSecond, line)) =>
                  Verdict1.val[2] = IF NumbersOf(line) = <<>> THEN 0
                                    ELSE AsConfidence(NumbersOf(line)[1])
            /\ Verdict1.val[2] >= 0 /\ Verdict1.val[2] <= Scale
            /\ Response1 = ResponseAnswerSecond => Verdict1.val = <<1, (9 * Scale) \div 10>>

C23_Witness ==
    /\ Interpreted("pairwise")
    /\ Response1 = ResponseBoth
    /\ Verdict1.val = <<0, (4 * Scale) \div 10>>

\* C24: a pairwise response whose last line has neither "first" nor "second" is
\* read as winner 0 with confidence 0.0, a number in the line notwithstanding,
\* and as 0 by the tournament; no exception is raised.
C24_NoSideNamed ==
    (ret.op = "interpret" /\ ~Names(WordFirst, VerdictLine(Response1))
        /\ ~Names(WordSecond, VerdictLine(Response1))) =>
        /\ Verdict1.exc = "none"
        /\ args.shape = "pairwise" => Verdict1.val = <<0, 0>>
        /\ args.shape = "tournament" => Verdict1.val = 0

C24_Witness ==
    /\ Interpreted("pairwise")
    /\ Response1 = ResponseNumberOnly
    /\ NumbersOf(VerdictLine(Response1)) = <<90 * Scale>>
    /\ Verdict1.val = <<0, 0>>

\* C25: the scalar verdict is the last number of the last line of the
\* response; when the line has no number the interpreter raises ParseError
\* and returns no score.
C25_ScalarVerdict ==
    Interpreted("float") =>
        LET numbers == NumbersOf(VerdictLine(Response1))
        IN  IF numbers = <<>>
            THEN Verdict1.exc = "ParseError"
            ELSE Verdict1.exc = "none" /\ Verdict1.val = numbers[Len(numbers)]

\* C26: the binary verdict is true for a last line with "success", false for
\* one with "fail", in any case of the letters, and false for any other line.
C26_BinaryVerdict ==
    Interpreted("bool") =>
        LET line == VerdictLine(Response1)
        IN  /\ Verdict1.exc = "none"
            /\ Verdict1.val = IF Names(WordSuccess, line) THEN Scale
                              ELSE IF Names(WordFail, line) THEN 0
                              ELSE 0

C26_Witness ==
    /\ Interpreted("bool")
    /\ Response1 = ResponseFail
    /\ Verdict1.val = 0

\* s.split("\n"), the lines of s
RECURSIVE SplitLines(_)
SplitLines(s) ==
    IF \A k \in 1..Len(s) : s[k] # "\n" THEN <<s>>
    ELSE LET break == CHOOSE k \in 1..Len(s) :
                          s[k] = "\n" /\ \A j \in 1..(k - 1) : s[j] # "\n"
         IN  <<SubSeq(s, 1, break - 1)>> \o SplitLines(SubSeq(s, break + 1, Len(s)))

\* the last line of s that is not blank (<<>> if all are)
LastNonBlankLine(s) ==
    LET lines == SplitLines(s)
        filled == {k \in 1..Len(lines) : \E j \in 1..Len(lines[k]) :
                                             lines[k][j] \notin Whitespace}
    IN  IF filled = {} THEN <<>>
        ELSE lines[CHOOSE k \in filled : \A j \in filled : j <= k]

\* C27: each interpreter gives two responses with the same last non-blank line
\* the same verdict, whatever lines come before it and whatever blank lines
\* after it, and a call changes nothing but its result.
C27_LastLineOnly ==
    [][ret'.op = "interpret" =>
          /\ UNCHANGED <<args, tvars, loop_config, model, submissions, reviews,
                         n_consec_exit_cost, terminal_temperature>>
          /\ (Len(ret'.val) = 2
                 /\ LastNonBlankLine(args.responses[1])
                        = LastNonBlankLine(args.responses[2])) =>
                ret'.val[1] = ret'.val[2]]_vars

C27_Witness ==
    /\ Interpreted("pairwise")
    /\ args.responses = <<ResponseAnswerSecond, ResponseDiscussedSecond>>
    /\ LastNonBlankLine(args.responses[1]) = LastNonBlankLine(args.responses[2])
    /\ ret.val = <<[exc |-> "none", val |-> <<1, (9 * Scale) \div 10>>],
                   [exc |-> "none", val |-> <<1, (9 * Scale) \div 10>>]>>

-----------------------------------------------------------------------------
(* Properties of Reviewer.review *)

\* review has returned; its result and the queries of the model it made
Reviewed == ret.op = "review"
ReviewResult == ret.val[1].result
Queries == ret.val[1].queries

\* the submission reviewed has no exit status, or an empty one
StatusMissing ==
    \/ args.submission.info.exit_status = <<>>
    \/ args.submission.info.exit_status[1] = <<>>

\* the submission reviewed is to be rejected without asking the model
ToDeskReject ==
    \/ StatusMissing
    \/ /\ args.config.reject_exit_status
       /\ strip(args.submission.info.exit_status[1]) # StatusSubmitted

\* C28: a submission with no or an empty exit status is rejected with score 0
\* and no query of the model; with reject_exit_status so is one whose trimmed
\* exit status is not "submitted"; without it a submission with any other
\* status goes to the model like one with "submitted".
C28_DeskRejection ==
    Reviewed =>
        IF ToDeskReject
        THEN /\ ReviewResult.accept = 0
             /\ Queries = 0
             /\ ReviewResult.messages = <<>>
             /\ Len(ReviewResult.outputs) = 1
             /\ ReviewResult.outputs[1] \notin ReviewResponses
        ELSE /\ Queries = args.config.n_sample
             /\ ReviewResult.outputs = args.answers
             /\ ReviewResult.messages # <<>>

C28_Witness ==
    /\ Reviewed
    /\ ~args.config.reject_exit_status
    /\ args.submission.info.exit_status = <<StatusExitCostCapital>>
    /\ args.config.n_sample = 2
    /\ Queries = 2
    /\ ReviewResult.accept = Scale

\* the response has a verdict of the shape: any response has a binary one, a
\* response with a number in its last line a scalar one
Parses(output_type, response) ==
    output_type = "bool" \/ NumbersOf(VerdictLine(response)) # <<>>

\* the scores of the responses of the review that parse, in order
ValidScores ==
    LET valid == SelectSeq(args.answers,
                           LAMBDA r : Parses(args.config.output_type, r))
    IN  [k \in 1..Len(valid) |-> interpret(args.config, valid[k])]

\* C29: when the submission goes to the model and none of the responses
\* parses, review raises nothing and its score is below every score that a
\* response that parses can get.
C29_SentinelScore ==
    (Reviewed /\ ~ToDeskReject /\ ValidScores = <<>>) =>
        /\ ret.exc = "none"
        /\ \A r \in ReviewResponses :
              Parses(args.config.output_type, r) =>
                  ReviewResult.accept < interpret(args.config, r)

\* C30: the score of a submission that goes to the model is the arithmetic
\* mean of the scores of the responses that parse; the scores 1, 0, 1, 1, 0
\* give 0.6.
C30_MeanOfValidScores ==
    (Reviewed /\ ~ToDeskReject /\ ValidScores # <<>>) =>
        /\ ReviewResult.accept = SumSeq(ValidScores) \div Len(ValidScores)
        /\ (args.config.output_type = "float"
               /\ args.answers = <<ResponseOne, ResponseZero, ResponseOne, ResponseOne,
                                   ResponseZero>>)
              => ReviewResult.accept = (6 * Scale) \div 10

\* the sequence s without its k-th element
Without(s, k) == SubSeq(s, 1, k - 1) \o SubSeq(s, k + 1, Len(s))

\* C31: a response that does not parse is left out of the aggregation: when
\* one response of a review does not parse and the others do, the score is the
\* score of the review of the others alone.
C31_UnparseableExcluded ==
    (Reviewed /\ ~ToDeskReject) =>
        \A k \in 1..Len(args.answers) :
            (/\ Len(args.answers) >= 2
             /\ ~Parses(args.config.output_type, args.answers[k])
             /\ \A j \in 1..Len(args.answers) :
                   j # k => Parses(args.config.output_type, args.answers[j]))
            => ReviewResult.accept =
                  review([args.config EXCEPT !.n_sample = @ - 1], args.submission,
                         Without(args.answers, k)).accept

-----------------------------------------------------------------------------
(* Properties of the forwarded texts *)

\* get_forwarded_vars has been called
Forwarded == ret.op = "get_forwarded_vars"

\* the mapping returned and its text
ForwardedVars == ret.val[1]
ForwardedText == ForwardedVars[ForwardedKey]

\* the attempts (1-based) that were rejected, and those that have a
\* submission text
Rejected(i) == args.reviews[i].accept = 0
HasText(i) ==
    /\ args.submissions[i].info.submission # <<>>
    /\ args.submissions[i].info.submission[1] # <<>>
RejectedAttempts == {i \in 1..Len(args.reviews) : Rejected(i)}

\* the submission text of attempt i, empty when there is none
TextOf(i) ==
    IF args.submissions[i].info.submission = <<>>
    THEN <<>>
    ELSE args.submissions[i].info.submission[1]

\* the first raw output of the review of attempt i
FirstOutput(i) == args.reviews[i].outputs[1]

\* a occurs in s and b occurs in s after that occurrence
FollowedIn(a, b, s) ==
    \E p \in 0..(Len(s) - Len(a)) :
        /\ SubSeq(s, p + 1, p + Len(a)) = a
        /\ Contains(b, SubSeq(s, p + Len(a) + 1, Len(s)))

\* the place of the rejected attempt i among the rejected attempts, from 1
RankOf(i) == Cardinality({j \in 1..i : Rejected(j)})

\* C32: for submissions and reviews of the same length, whether the lists
\* are empty, all attempts were accepted, some were rejected, or rejected
\* attempts have no submission text, get_forwarded_vars returns a mapping with
\* the same set of keys: the one key failed_verdicts_with_submissions.
C32_SameKeys ==
    (Forwarded /\ Len(args.submissions) = Len(args.reviews)) =>
        /\ ret.exc = "none"
        /\ DOMAIN ForwardedVars = {ForwardedKey}

C32_Witness ==
    /\ Forwarded
    /\ Len(args.reviews) = 3
    /\ Rejected(1) /\ ~HasText(1)
    /\ ~Rejected(2)
    /\ Rejected(3) /\ HasText(3)
    /\ DOMAIN ForwardedVars = {ForwardedKey}

\* C33 as stated: when an attempt was rejected, the text has, for each
\* rejected attempt, its submission text followed by the first raw output of
\* its review; when none was rejected the text is empty.
C33_ForwardedText_Original ==
    (Forwarded /\ ret.exc = "none") =>
        IF RejectedAttempts = {}
        THEN ForwardedText = <<>>
        ELSE \A i \in RejectedAttempts :
                FollowedIn(TextOf(i), FirstOutput(i), ForwardedText)

\* C33: when an attempt was rejected, the text starts with the header line
\* and has, for each rejected attempt with a non-empty submission text, a block
\* with its submission text followed by the first raw output of its review,
\* numbered by its place among the rejected attempts; a rejected attempt
\* without submission text has no block; when no attempt was rejected the text
\* is empty.
C33_ForwardedText ==
    (Forwarded /\ ret.exc = "none") =>
        IF RejectedAttempts = {}
        THEN ForwardedText = <<>>
        ELSE /\ SubSeq(ForwardedText, 1, Len(ForwardedHeader)) = ForwardedHeader
             /\ \A i \in RejectedAttempts :
                   IF HasText(i)
                   THEN /\ FollowedIn(TextOf(i), FirstOutput(i), ForwardedText)
                        /\ Contains(Break \o SubmissionLabel \o StrOfNat(RankOf(i))
                                       \o ColonBreak \o TextOf(i) \o Break \o ReviewLabel
                                       \o StrOfNat(RankOf(i)) \o ColonBreak
                                       \o FirstOutput(i),
                                    ForwardedText)
                   ELSE ~Contains(SubmissionLabel \o StrOfNat(RankOf(i)) \o ColonBreak,
                                  ForwardedText)
             /\ (\A i \in RejectedAttempts : ~HasText(i))
                   => ForwardedText = ForwardedHeader

C33_Witness ==
    /\ Forwarded
    /\ Len(args.reviews) = 3
    /\ ~Rejected(1)
    /\ Rejected(2) /\ ~HasText(2)
    /\ Rejected(3) /\ HasText(3) /\ Len(args.reviews[3].outputs) = 2
    /\ Contains(TextOf(3), ForwardedText)

-----------------------------------------------------------------------------
(* Properties of the formatted trajectories *)

\* format_trajectory has been called
Formatted == ret.op = "format_trajectory"

\* the rendered items of the text, and the trajectory after the call
FormattedText == ret.val[1].text
TrajectoryAfter == ret.val[1].trajectory

\* the action of the step as the prefixes are tested on it: trimmed or as it is
TestedAction(step, trimmed) == IF trimmed THEN strip(step.action) ELSE step.action

\* the steps of the trajectory that remain: those whose action starts with no
\* filter prefix
Remaining(trimmed) ==
    SelectSeq(args.trajectory,
              LAMBDA step : \A k \in 1..Len(args.config.filter) :
                               ~startswith(TestedAction(step, trimmed), args.config.filter[k]))

\* the k-th remaining step is among the last N remaining steps
AmongLast(k, N, trimmed) == k \in (Len(Remaining(trimmed)) - N + 1)..Len(Remaining(trimmed))

\* the observation of the k-th remaining step is to be replaced
Omitted(k, trimmed) ==
    \/ \E j \in 1..Len(args.config.output_filter) :
          startswith(TestedAction(Remaining(trimmed)[k], trimmed),
                     args.config.output_filter[j])
    \/ /\ args.config.only_show_last_n_output > 0
       /\ ~AmongLast(k, args.config.only_show_last_n_output, trimmed)

\* the text has one item for each remaining step, in order, with the index
\* of the step among the remaining ones from 0, and the placeholder for its
\* observation exactly when that is to be replaced; the trajectory is as
\* before the call
FormatRule(trimmed) ==
    /\ Len(FormattedText) = Len(Remaining(trimmed))
    /\ \A k \in 1..Len(FormattedText) :
          /\ FormattedText[k].action = Remaining(trimmed)[k].action
          /\ FormattedText[k].i_step = k - 1
          /\ FormattedText[k].observation =
                IF Omitted(k, trimmed)
                THEN OutputOmitted
                ELSE Remaining(trimmed)[k].observation
    /\ TrajectoryAfter = args.trajectory

\* C34 as stated, the prefixes tested on the action as it is
C34_FormatTrajectory_Original == Formatted => FormatRule(FALSE)

\* C34: a step whose action, trimmed of surrounding whitespace, starts with a
\* filter prefix is omitted; each remaining step appears once, in order, with
\* its zero-based index among the remaining steps; its observation is the
\* placeholder iff its trimmed action starts with an output-filter prefix or
\* only_show_last_n_output > 0 and the step is not among the last N remaining
\* ones; the trajectory is left as it was.
C34_FormatTrajectory == Formatted => FormatRule(TRUE)

C34_Witness ==
    /\ Formatted
    /\ Len(args.trajectory) = 3
    /\ args.config.only_show_last_n_output = 1
    /\ args.config.filter # <<>>
    /\ Len(FormattedText) = 2
    /\ FormattedText[1].observation = OutputOmitted
    /\ FormattedText[2].observation = ObservationA
    /\ args.trajectory[1].action = ActionLsPadded

=============================================================================
